---- MODULE Spec2Model ----
(***************************************************************************)
(* The IMAP watcher of melib (backends/imap/watch.rs): the spawn loop with *)
(* its reconnection handling, the IDLE loop, the polling loop and          *)
(* examine_updates, run against a small IMAP server and network.           *)
(***************************************************************************)
EXTENDS Integers, Sequences, FiniteSets, TLC

\* ------------------------------------------------------------------ bounds
\* mailboxes of the account, all of them watched
NumMailboxes == 2
\* messages the server delivers to INBOX / to each other mailbox
MaxMsgs == 2
MaxOtherMsgs == 1
\* greatest UIDVALIDITY the server gives INBOX / each other mailbox
MaxUidValidity == 2
MaxOtherUidValidity == 1
\* times the network is cut
MaxOutages == 1
\* polling periods and re-entries of the active loop that are followed
MaxPolls == 1
\* tasks that share the UID store, and rows of a FETCH response they index
NumTasks == 2
MaxRows == 2

\* --------------------------------------------------------------- constants
Mailboxes == 1..NumMailboxes
\* the mailbox found by special_usage() == Inbox with no parent
INBOX == 1
NoMailbox == 0
MsgBound(mh) == IF mh = INBOX THEN MaxMsgs ELSE MaxOtherMsgs
UidValidityBound(mh) == IF mh = INBOX THEN MaxUidValidity ELSE MaxOtherUidValidity

\* capability tokens are byte strings, kept as tuples of ASCII codes
CAP_IDLE == <<73, 68, 76, 69>>
CAP_idle == <<105, 100, 108, 101>>
CAP_IDLEX == <<73, 68, 76, 69, 88>>
CAP_LIST_STATUS == <<76, 73, 83, 84, 45, 83, 84, 65, 84, 85, 83>>
CapabilitySets == {{CAP_IDLE, CAP_LIST_STATUS}, {CAP_idle}, {CAP_IDLEX}}

Protocols == {"IMAP", "ManageSieve"}

\* register_mailbox: INBOX alone is watched, or every mailbox
WatchedSets == {{INBOX}, Mailboxes}

\* errors the watcher can see; is_network() holds of I/O failures and timeouts
NetworkErrors == {"net", "lock_timeout"}
is_network(e) == e \in NetworkErrors

VARIABLES
    \* server and environment
    srv_uidvalidity, srv_exists, srv_recent, srv_caps, stream, net, outages,
    main_lock,
    watch_due,
    \* configuration (ImapServerConf, UIDStore, ImapWatcher)
    protocol, idle_ext, keep_offline_cache, resync_ok, mailbox_hashes,
    \* UIDStore
    capabilities, uidvalidity, uid_index, hash_index, msn_index, is_online,
    \* ImapMailbox
    cold, exists, unseen,
    \* the event consumer's input
    events,
    \* the watcher task
    pc, has_idle, err, result, todo, cur, ret, sel, response, line,
    conn_alive, selected, idling, polls,
    \* history: mailboxes whose new UIDVALIDITY was observed, Rescan not yet emitted
    observed,
    \* history: the uid_index keys held when a new UIDVALIDITY of their mailbox was observed
    stale,
    \* history: messages (mailbox, uid) delivered to a loaded mailbox while the
    \* network was cut
    missed,
    \* the UID store's locks, and the tasks that take them
    lock_holder, lock_prog, lock_pos,
    \* the mbox backend: the account's settings and the results of their check
    \* and of MboxType::new
    backend_key, settings, validated, created,
    \* MboxType
    prefer_mbox_type, mbox_mailboxes, mailbox_index,
    \* MboxMailbox.index of the root mailbox, and its file
    index, fs_contents,
    \* history: what the delivery agent wrote to the file
    written,
    \* MessageIterator and FetchState
    iter_input, iter_offset, payload, fetch_state,
    \* the result of the last operation the mbox backend does not implement
    op_result,
    \* the notmuch backend: the tags of a message and the name of its file
    nm_tags, nm_path,
    \* the flags last written by set_flags and last read by collect_flags_and_tags
    nm_request, nm_flags,
    \* the read loop of idle() on the watcher's connection: the chunk read, the
    \* lines read_response drained, and what was sent and processed, in order
    rd_pc, rd_line, rd_response, rd_log, rd_reads,
    \* the counters of one mailbox and their mutexes, the cold path's position
    \* in updating them, the counts before and after, and a reader of both
    mailbox_exists, mailbox_unseen, exists_lck, unseen_lck, cnt_pc, cnt_old,
    cnt_new, rdr_pc, rdr_seen,
    \* the stream of MboxType::fetch: the file, the messages the iterator has
    \* left, FetchState.contents, the mailbox record's content, the loop's
    \* counter, the length of the payload, done, and the stream's position
    fb_file, fb_left, fb_contents, fb_content, fb_i, fb_payload, fb_done, fb_pc,
    \* the Status and X-Status headers of a parsed mbox message, the variant it
    \* was parsed as, and the flags the envelope was given
    hdr_status, hdr_x_status, hdr_format, env_flags, flag_pc,
    \* history: the flips of the call of set_flags and the tags before it
    nm_flips, nm_before,
    \* the notmuch mailbox of a query: the messages the query matches and the
    \* positions of the unread ones, the mailbox's total and unseen, and per
    \* fetch stream FetchState.iter (the ids consumed) and the stream's position
    nq_count, nq_unread, nmb_total, nmb_unseen, nfs_iter, nfs_pc,
    \* the loop of MessageIterator::next and of mbox_parse, one iteration at a time
    it_fn, it_input, it_format, it_offset, it_pc, it_recovered,
    \* an MboxOp of an indexed message: the file, the operation, its cached contents and what as_bytes and fetch_flags returned
    ff_msgs, ff_op, ff_slice, ff_bytes, ff_result

srv == <<srv_uidvalidity, srv_exists, srv_recent, srv_caps>>
env == <<net, outages>>
conn == <<conn_alive, selected, idling>>
conf == <<protocol, idle_ext, keep_offline_cache, resync_ok, mailbox_hashes>>
indices == <<uid_index, hash_index, msn_index>>
mbox == <<cold, exists, unseen>>
locals == <<todo, cur, ret, sel, response, line>>
hist == <<observed, stale, missed>>
locks == <<lock_holder, lock_prog, lock_pos>>
\* what no step of the watcher model writes
mboxv == <<backend_key, settings, validated, created, prefer_mbox_type, mbox_mailboxes,
           mailbox_index, index, fs_contents, written, iter_input, iter_offset, payload,
           fetch_state, op_result>>
nmv == <<nm_tags, nm_path, nm_request, nm_flags>>
readv == <<rd_pc, rd_line, rd_response, rd_log, rd_reads>>
\* the parts of the model that stand apart from the watcher's state machine
extv == <<readv, mailbox_exists, mailbox_unseen, exists_lck, unseen_lck, cnt_pc,
          cnt_old, cnt_new, rdr_pc, rdr_seen, fb_file, fb_left, fb_contents,
          fb_content, fb_i, fb_payload, fb_done, fb_pc, hdr_status, hdr_x_status,
          hdr_format, env_flags, flag_pc, nm_flips, nm_before,
    nq_count, nq_unread, nmb_total,
    nmb_unseen, nfs_iter, nfs_pc,
    it_fn, it_input, it_format, it_offset, it_pc, it_recovered,
    ff_msgs, ff_op, ff_slice, ff_bytes, ff_result>>
static == <<conf, locks, mboxv, nmv, extv>>
vars == <<srv, stream, env, main_lock, watch_due, static, capabilities, uidvalidity,
          indices, is_online, mbox, events, pc, has_idle, err, result, locals,
          conn, polls, hist>>

\* ----------------------------------------------------------------- helpers
ToUpper(c) == IF c >= 97 /\ c <= 122 THEN c - 32 ELSE c

eq_ignore_ascii_case(a, b) ==
    /\ Len(a) = Len(b)
    /\ \A i \in 1..Len(a) : ToUpper(a[i]) = ToUpper(b[i])

HasCapability(caps, token) == \E cap \in caps : eq_ignore_ascii_case(cap, token)

\* a variant that compares the capability bytes as they are
HasIdleCaseSensitive(proto, idle, caps) ==
    CASE proto = "IMAP" -> idle /\ CAP_IDLE \in caps
      [] OTHER -> FALSE

\* spawn: let has_idle = match protocol { IMAP { idle, .. } => idle && caps.any(..), _ => false }
HasIdle(proto, idle, caps) ==
    CASE proto = "IMAP" -> idle /\ HasCapability(caps, CAP_IDLE)
      [] OTHER -> FALSE

\* generate_envelope_hash(imap_path, uid): distinct (mailbox, uid) give distinct hashes
generate_envelope_hash(mh, uid) == mh * 100 + uid

\* LazyCountSet: a set of hashes plus a count of not yet seen messages
LazyLen(l) == Cardinality(l.set) + l.not_yet_seen
LazyInsertNew(l, h) == [l EXCEPT !.set = @ \cup {h}]
LazyNotYetSeen(n) == [set |-> {}, not_yet_seen |-> n]

Max(a, b) == IF a >= b THEN a ELSE b

RECURSIVE Range(_, _)
Range(a, b) == IF a > b THEN <<>> ELSE <<a>> \o Range(a + 1, b)

RECURSIVE SetToSeq(_)
SetToSeq(S) ==
    IF S = {} THEN <<>>
    ELSE LET m == CHOOSE x \in S : \A y \in S : x <= y
         IN <<m>> \o SetToSeq(S \ {m})

SeqToSet(s) == {s[i] : i \in 1..Len(s)}

CreateEvent(mh, h) == [kind |-> "Create", mailbox_hash |-> mh, hash |-> h]
RescanEvent(mh) == [kind |-> "Rescan", mailbox_hash |-> mh, hash |-> 0]
FailureEvent == [kind |-> "Failure", mailbox_hash |-> 0, hash |-> 0]

\* untagged lines of the IDLE stream: "* OK ..." and "* n EXISTS"
OkLine == [kind |-> "ok", n |-> 0]
ExistsLine(n) == [kind |-> "exists", n |-> n]

NoSelect == [uidvalidity |-> 0, exists |-> 0, recent |-> 0]

Put(f, k, v) == [x \in DOMAIN f \cup {k} |-> IF x = k THEN v ELSE f[x]]

\* ------------------------------------------------------------------- Init
WatcherAtSpawn ==
    /\ srv_uidvalidity = [mh \in Mailboxes |-> 1]
    /\ srv_exists = [mh \in Mailboxes |-> 0]
    /\ srv_recent = [mh \in Mailboxes |-> {}]
    /\ stream = {}
    /\ net = "up"
    /\ outages = 0
    /\ main_lock = "free"
    /\ watch_due = FALSE
    /\ protocol \in Protocols
    /\ idle_ext \in BOOLEAN
    /\ keep_offline_cache \in BOOLEAN
    /\ resync_ok \in BOOLEAN
    /\ mailbox_hashes \in WatchedSets
    /\ capabilities \in CapabilitySets
    /\ srv_caps = capabilities
    /\ uidvalidity = [mh \in Mailboxes |-> 0]
    /\ uid_index = << >>
    /\ hash_index = << >>
    /\ msn_index = [mh \in Mailboxes |-> <<>>]
    /\ is_online = "ok"
    /\ cold = [mh \in Mailboxes |-> TRUE]
    /\ exists = [mh \in Mailboxes |-> LazyNotYetSeen(0)]
    /\ unseen = [mh \in Mailboxes |-> LazyNotYetSeen(0)]
    /\ events = <<>>
    /\ pc = "spawn"
    /\ has_idle = FALSE
    /\ err = "none"
    /\ result = "running"
    /\ todo = {}
    /\ cur = NoMailbox
    /\ ret = "none"
    /\ sel = NoSelect
    /\ response = <<>>
    /\ line = {}
    /\ conn_alive = FALSE
    /\ selected = NoMailbox
    /\ idling = FALSE
    /\ polls = 0
    /\ observed = {}
    /\ stale = {}
    /\ missed = {}

\* ---------------------------------------------------- the UID store's locks
\* the fixed order of the locks
LockOrder == <<"capabilities", "mailboxes", "uidvalidity", "uid_index",
               "hash_index", "msn_index">>
Locks == {LockOrder[i] : i \in 1..Len(LockOrder)}
Rank(l) == CHOOSE i \in 1..Len(LockOrder) : LockOrder[i] = l

Tasks == 1..NumTasks
NoTask == 0

Acq(l) == [op |-> "acquire", lock |-> l]
Rel(l) == [op |-> "release", lock |-> l]

\* spawn, lines 62-68: the guard is a temporary of the `let`
SpawnLocks == <<Acq("capabilities"), Rel("capabilities")>>

\* idle, lines 134-184: the guard of the match scrutinee, the block of the
\* UIDVALIDITY check, the block of the snapshot
IdleLocks ==
    <<Acq("mailboxes"), Rel("mailboxes"),
      Acq("uidvalidity"), Rel("uidvalidity"),
      Acq("mailboxes"), Rel("mailboxes")>>

\* examine_updates, lines 324-347
UidvalidityLocks == <<Acq("uidvalidity"), Rel("uidvalidity")>>

\* examine_updates, lines 350-356
ColdLocks == <<Acq("capabilities"), Rel("capabilities")>>

\* a variant that keeps the guard of msn_index to the end of the row
RowLocksGuardKept ==
    <<Acq("uid_index"), Rel("uid_index"),
      Acq("msn_index"),
      Acq("hash_index"), Rel("hash_index"),
      Acq("uid_index"), Rel("uid_index"),
      Rel("msn_index")>>

\* examine_updates, lines 513-544, one row that is not known yet: every guard
\* is a temporary of its statement
RowLocks ==
    <<Acq("uid_index"), Rel("uid_index"),
      Acq("msn_index"), Rel("msn_index"),
      Acq("hash_index"), Rel("hash_index"),
      Acq("uid_index"), Rel("uid_index")>>

\* examine_updates, lines 513-520, one row that is known
KnownRowLocks == <<Acq("uid_index"), Rel("uid_index")>>

RECURSIVE RowsLocks(_)
RowsLocks(rows) ==
    IF rows = <<>> THEN <<>>
    ELSE (IF Head(rows) THEN KnownRowLocks ELSE RowLocks) \o RowsLocks(Tail(rows))

\* the rows of a FETCH response, each known or not
RowKinds == UNION {[1..n -> BOOLEAN] : n \in 0..MaxRows}

\* examine_updates: the UIDVALIDITY check, then the cold path or the rows
ExamineLocks == {UidvalidityLocks \o ColdLocks}
                    \cup {UidvalidityLocks \o RowsLocks(rows) : rows \in RowKinds}

\* the IDLE loop: spawn, the start of idle, then an examine_updates
IdleLoopLocks == {SpawnLocks \o IdleLocks \o ex : ex \in ExamineLocks}

LockPrograms == ExamineLocks \cup IdleLoopLocks

LocksAtRest ==
    /\ lock_holder = [l \in Locks |-> NoTask]
    /\ lock_prog = [t \in Tasks |-> <<>>]
    /\ lock_pos = [t \in Tasks |-> 1]

Held(t) == {l \in Locks : lock_holder[l] = t}

\* task t runs the next lock operation of its code; a lock that is held makes
\* it wait
LockStep(t) ==
    /\ lock_pos[t] <= Len(lock_prog[t])
    /\ LET o == lock_prog[t][lock_pos[t]]
       IN IF o.op = "acquire"
          THEN /\ lock_holder[o.lock] = NoTask
               /\ lock_holder' = [lock_holder EXCEPT ![o.lock] = t]
          ELSE lock_holder' = [lock_holder EXCEPT ![o.lock] = NoTask]
    /\ lock_pos' = [lock_pos EXCEPT ![t] = @ + 1]
    /\ UNCHANGED lock_prog

\* ------------------------------------------------------ the mbox backend
\* (backends/mbox.rs).  A file is a sequence of symbols, each standing for a
\* run of bytes; offsets and lengths count symbols.
Sym(k, v) == [k |-> k, v |-> v]
\* "\n"
NL == Sym("nl", 0)
\* "From " at the start of a line, and its quoted form ">From "
FROM == Sym("from", 0)
QFROM == Sym("qfrom", 0)
\* a byte of text, in a line that is neither a header nor starts with "From "
TXT == Sym("text", 0)
\* a header "Name: value" other than the two below
HDR == Sym("hdr", 0)
\* "Message-ID: <i>" and "Content-Length: n"
MID(i) == Sym("mid", i)
CL(n) == Sym("cl", n)

IsHeaderSym(b) == b.k \in {"hdr", "mid", "cl"}

None == -1
\* input[a..b] and input[a..] of a Rust slice (offsets from 0)
Slice(input, a, b) == SubSeq(input, a + 1, b)
SliceFrom(input, a) == SubSeq(input, a + 1, Len(input))
StartsWith(input, pat) ==
    /\ Len(pat) <= Len(input)
    /\ SubSeq(input, 1, Len(pat)) = pat
\* input.find(pat): the offset of the first occurrence
Find(input, pat) ==
    LET at == {i \in 0..(Len(input) - Len(pat)) : StartsWith(SliceFrom(input, i), pat)}
    IN  IF at = {} THEN None ELSE CHOOSE i \in at : \A j \in at : i <= j

\* parser::headers::header(input).is_ok(): input starts with a header line
HeaderOk(input) ==
    /\ Len(input) >= 2
    /\ IsHeaderSym(input[1])
    /\ input[2] = NL

\* the length of the header lines input starts with (many1(header))
RECURSIVE HeadersLen(_)
HeadersLen(input) ==
    IF HeaderOk(input) THEN 2 + HeadersLen(SliceFrom(input, 2)) ELSE 0

\* the Message-ID among the header lines, 0 (a digest) without one
NoMessageId == 0
MessageIdOf(headers) ==
    LET at == {i \in 1..Len(headers) : headers[i].k = "mid"}
    IN  IF at = {} THEN NoMessageId
        ELSE headers[CHOOSE i \in at : \A j \in at : i <= j].v

ParseErr == [kind |-> "err", hash |-> 0, rest |-> 0]
ParsePanic == [kind |-> "panic", hash |-> 0, rest |-> 0]
ParseOk(hash, rest) == [kind |-> "ok", hash |-> hash, rest |-> rest]

\* Envelope::from_bytes: header lines, an empty line, the body; the hash of
\* the envelope or None
EnvelopeAfter(bytes, h) ==
    IF h > 0 /\ Len(bytes) > h /\ bytes[h + 1] = NL
    THEN MessageIdOf(Slice(bytes, 0, h))
    ELSE None
FromBytes(bytes) == EnvelopeAfter(bytes, HeadersLen(bytes))

\* "\n\nFrom "
TAG == <<NL, NL, FROM>>

\* find_From__line!: the offset of the next "\n\nFrom " whose line is followed
\* by a header, the length of the input when no "\n\nFrom " is left
RECURSIVE FindFromLineAt(_, _)
\* the candidate at ptr + end, whose line ends at line_end
FromLineCandidate(input, ptr, end, line_end) ==
    IF line_end = None THEN FindFromLineAt(input, ptr + end + Len(TAG))
    ELSE IF HeaderOk(SliceFrom(input, ptr + end + Len(TAG) + line_end + 1))
    THEN ptr + end
    ELSE FindFromLineAt(input, ptr + end + Len(TAG) + line_end)
FromLineSearch(input, ptr, end) ==
    IF end = None THEN Len(input)
    ELSE FromLineCandidate(input, ptr, end,
                           Find(SliceFrom(input, ptr + end + Len(TAG)), <<NL>>))
FindFromLineAt(input, ptr) ==
    IF ptr >= Len(input) THEN None
    ELSE FromLineSearch(input, ptr, Find(SliceFrom(input, ptr), TAG))

find_From__line(input) == FindFromLineAt(input, 0)

Formats == {"mboxo", "mboxrd", "mboxcl", "mboxcl2"}
\* prefer_mbox_type: None
Auto == "auto"

\* the offset after the first line of the input
LineStart(nl) == IF nl = None THEN 0 ELSE nl + 1
\* the result of a parse from the result of Envelope::from_bytes
ParseResult(envelope, rest) == IF envelope = None THEN ParseErr ELSE ParseOk(envelope, rest)

\* MboxFormat::parse of MboxO and of MboxRd (the same code): the envelope's
\* hash and the length of the input left
ParseRdAt(input, start, len) ==
    IF start > len THEN ParsePanic
    ELSE ParseResult(FromBytes(Slice(input, start, len)),
                     IF len = Len(input) THEN 0 ELSE Len(input) - (len + 2))
ParseRdFound(input, end, nl) ==
    ParseRdAt(input, LineStart(nl), IF end # None /\ nl # None THEN end ELSE Len(input))
ParseRd(input) == ParseRdFound(input, find_From__line(input), Find(input, <<NL>>))

\* the value of the first Content-Length among the headers
ContentLengthAt(headers, cls) ==
    IF cls = {} THEN None ELSE headers[CHOOSE i \in cls : \A j \in cls : i <= j].v
ContentLength(headers) ==
    ContentLengthAt(headers, {i \in 1..Len(headers) : headers[i].k = "cl"})

\* line 673: what Envelope::from_bytes is given, &input[..headers_end + bytes]
ClEnvelopeBytes(input, headers_end, bytes) == Slice(input, 0, headers_end + bytes)

\* MboxFormat::parse of MboxCl and of MboxCl2
ParseClEnvelope(orig_input, envelope, rest) ==
    IF envelope = None THEN ParseRd(orig_input) ELSE ParseOk(envelope, rest)
ParseClLength(orig_input, input, headers_end, bytes) ==
    IF bytes = None THEN ParseRd(orig_input)
    ELSE IF headers_end + bytes > Len(input) THEN ParsePanic
    ELSE ParseClEnvelope(orig_input, FromBytes(ClEnvelopeBytes(input, headers_end, bytes)),
                         IF headers_end + 2 + bytes >= Len(input) THEN 0
                         ELSE Len(input) - (headers_end + 3 + bytes))
ParseClHeaders(orig_input, input, headers_end) ==
    ParseClLength(orig_input, input, headers_end,
                  ContentLength(Slice(input, 0, headers_end)))
ParseClInput(orig_input, input, blank) ==
    ParseClHeaders(orig_input, input, IF blank = None THEN Len(input) ELSE blank)
ParseClFrom(orig_input, input) ==
    ParseClInput(orig_input, input, Find(input, <<NL, NL>>))
ParseCl(orig_input) ==
    ParseClFrom(orig_input, SliceFrom(orig_input, LineStart(Find(orig_input, <<NL>>))))

Parse(format, input) ==
    IF format \in {"mboxo", "mboxrd"} THEN ParseRd(input) ELSE ParseCl(input)

\* ---- the files of the model: messages written by a delivery agent
\* the bodies of the messages: a line without and with its end of line, a
\* line starting with "From ", and a paragraph followed by a quoted message
Bodies == {<<TXT, TXT>>, <<TXT, TXT, NL>>, <<FROM, TXT, NL>>,
           <<TXT, NL, NL, FROM, TXT, NL, HDR, NL>>}
\* messages of a file
MaxMessages == 2

\* a line starting with "From " is quoted in every variant but mboxcl2
Escape(body, V) ==
    IF V = "mboxcl2" THEN body
    ELSE [i \in 1..Len(body) |-> IF body[i] = FROM THEN QFROM ELSE body[i]]

\* the end of the last line of a body that lacks it
EndOfLine(body) ==
    IF Len(body) > 0 /\ body[Len(body)] = NL THEN <<>> ELSE <<NL>>

\* message i of a file: the From_ line, the headers (with the length of the
\* body as Content-Length in mboxcl and mboxcl2), an empty line, the body
WriteMessage(i, body, V) ==
    <<FROM, TXT, NL, MID(i), NL>>
    \o (IF V \in {"mboxcl", "mboxcl2"} THEN <<CL(Len(Escape(body, V))), NL>> ELSE <<>>)
    \o <<NL>> \o Escape(body, V) \o EndOfLine(body)

\* the blocks of a file, separated by empty lines
RECURSIVE Join(_)
Join(blocks) ==
    IF Len(blocks) = 0 THEN <<>>
    ELSE IF Len(blocks) = 1 THEN blocks[1]
    ELSE blocks[1] \o <<NL>> \o Join(Tail(blocks))

Written(bodies, V) == [i \in 1..Len(bodies) |-> WriteMessage(i, bodies[i], V)]

\* blocks that are no message: a From_ line followed by text, by a header and
\* text without the empty line, and the latter with a Content-Length header
\* that states the length of the file
NoBlock == <<>>
BadBlocks(bodies, V) ==
    {<<FROM, TXT, NL, TXT, NL>>,
     <<FROM, TXT, NL, HDR, NL, TXT, NL>>,
     <<FROM, TXT, NL, CL(Len(Join(Written(bodies, V))) + 8), NL, TXT, NL>>}

MessageSeqs == UNION {[1..n -> Bodies] : n \in 1..MaxMessages}

\* what was written: the variant, the bodies of the messages, the block
\* between the first two messages; without messages, a file that starts with
\* such a block and was cut in the From_ line after it
Writings ==
    UNION {{[variant |-> V, bodies |-> b, bad |-> x] :
                x \in IF Len(b) >= 2 THEN BadBlocks(b, V) \cup {NoBlock} ELSE {NoBlock}} :
           <<V, b>> \in Formats \X MessageSeqs}
    \cup UNION {{[variant |-> V, bodies |-> <<>>, bad |-> x] : x \in BadBlocks(<<>>, V)} :
                V \in Formats}

Blocks(w) ==
    IF w.bad = NoBlock THEN Written(w.bodies, w.variant)
    ELSE <<Written(w.bodies, w.variant)[1], w.bad>> \o Tail(Written(w.bodies, w.variant))

FileOf(w) ==
    IF w.bodies = <<>> THEN w.bad \o <<NL, FROM>> ELSE Join(Blocks(w))
NothingWritten == [variant |-> "mboxcl2", bodies |-> <<>>, bad |-> NoBlock]

\* ---- MessageIterator::next
IterNone == [kind |-> "none", offset |-> 0, hash |-> 0, at |-> 0, len |-> 0]
IterErr == [kind |-> "err", offset |-> 0, hash |-> 0, at |-> 0, len |-> 0]
IterPanic == [kind |-> "panic", offset |-> 0, hash |-> 0, at |-> 0, len |-> 0]

RECURSIVE IterNext(_, _, _)
\* the envelope was parsed: its index entry and the offset after it
IterYield(inp, off, hash, rest, start) ==
    [kind |-> "some", offset |-> off + (Len(inp) - rest - off - start) + start,
     hash |-> hash, at |-> off + start, len |-> Len(inp) - rest - off - start]
\* lines 794-802: the offset after the recovery; the two newlines before the
\* From_ line are skipped unless the end of the input was reached
RecoverOffsetUnchecked(inp, off, next_offset) == off + next_offset + 2
RecoverOffset(inp, off, next_offset) ==
    IF off + next_offset # Len(inp) THEN off + next_offset + 2 ELSE off + next_offset

\* the parse failed: go on at the next From_ line, if there is one
IterRecover(inp, off, format, next_offset) ==
    IF next_offset = None THEN IterErr
    ELSE IterNext(inp, RecoverOffset(inp, off, next_offset), format)
IterParsed(inp, off, format, p) ==
    IF p.kind = "panic" THEN IterPanic
    ELSE IF p.kind = "err"
    THEN IterRecover(inp, off, format, find_From__line(SliceFrom(inp, off)))
    ELSE IterYield(inp, off, p.hash, p.rest, LineStart(Find(SliceFrom(inp, off), <<NL>>)))
IterNext(inp, off, format) ==
    IF off > Len(inp) THEN IterPanic
    ELSE IF SliceFrom(inp, off) = <<>> THEN IterNone
    ELSE IterParsed(inp, off, format, Parse(format, SliceFrom(inp, off)))

\* ---- the account settings and the construction of the backend
EntryKinds == {"file", "missing", "dir", "nopath"}
PreferValues == {"absent", "auto", "mboxo", "mboxrd", "mboxcl", "mboxcl2", "mbox"}
Settings ==
    [root_mailbox : {"exists", "missing"},
     prefer_mbox_type : PreferValues,
     mailboxes : SUBSET EntryKinds]
DefaultSettings ==
    [root_mailbox |-> "exists", prefer_mbox_type |-> "absent", mailboxes |-> {}]
BackendKeys == {"mbox", "maildir2"}

Ok == "ok"
NotCalled == "none"
ErrRootMailbox == "root_mailbox is not a valid path"
ErrPreferMboxType == "invalid prefer_mbox_type value"
ErrNotAFile == "path value is not a file"
ErrNoPath == "should have a path value set"
ErrBackend == "is not a valid mail backend"
ErrUnimplemented == "Unimplemented."

\* MboxType::validate_config: the String of prefer_mbox_type always parses
MboxValidateConfig(s) ==
    IF s.root_mailbox # "exists" THEN ErrRootMailbox ELSE Ok

\* Backends::validate_config
BackendsValidateConfig(key, s) ==
    IF key # "mbox" THEN ErrBackend ELSE MboxValidateConfig(s)

\* MboxType::new: the results it can give (the mailbox entries are visited in
\* the order of a hash map)
MboxTypeNew(s) ==
    IF s.root_mailbox # "exists" THEN {ErrRootMailbox}
    ELSE IF s.prefer_mbox_type \notin Formats \cup {"absent", "auto"} THEN {ErrPreferMboxType}
    ELSE IF s.mailboxes \subseteq {"file"} THEN {Ok}
    ELSE {ErrNotAFile : k \in s.mailboxes \cap {"missing", "dir"}}
         \cup {ErrNoPath : k \in s.mailboxes \cap {"nopath"}}

NoResult == [op |-> "none", err |-> Ok]

MboxAtRest ==
    /\ backend_key = "mbox"
    /\ settings = DefaultSettings
    /\ validated = NotCalled
    /\ created = NotCalled
    /\ prefer_mbox_type = Auto
    /\ mbox_mailboxes = {}
    /\ mailbox_index = {}
    /\ index = {}
    /\ fs_contents = <<>>
    /\ written = NothingWritten
    /\ iter_input = <<>>
    /\ iter_offset = 0
    /\ payload = <<>>
    /\ fetch_state = "idle"
    /\ op_result = NoResult

\* the application checks the settings of the account
ValidateConfig ==
    /\ validated = NotCalled
    /\ validated' = BackendsValidateConfig(backend_key, settings)
    /\ UNCHANGED <<backend_key, settings, created, prefer_mbox_type, mbox_mailboxes,
                   mailbox_index, index, fs_contents, written, iter_input, iter_offset, payload,
                   fetch_state, op_result>>

\* MboxType::new
New ==
    /\ backend_key = "mbox"
    /\ created = NotCalled
    /\ \E r \in MboxTypeNew(settings) :
        /\ created' = r
        /\ IF r = Ok
           THEN /\ prefer_mbox_type' = IF settings.prefer_mbox_type = "absent" THEN Auto
                                       ELSE settings.prefer_mbox_type
                /\ mbox_mailboxes' = {"root"} \cup settings.mailboxes
           ELSE UNCHANGED <<prefer_mbox_type, mbox_mailboxes>>
    /\ UNCHANGED <<backend_key, settings, validated, mailbox_index, index, fs_contents,
                   written, iter_input, iter_offset, payload, fetch_state, op_result>>

\* a delivery agent writes messages to the file of the root mailbox
Deliver ==
    /\ created = Ok
    /\ fetch_state = "idle"
    /\ fs_contents = <<>>
    /\ \E w \in Writings :
        /\ written' = w
        /\ fs_contents' = FileOf(w)
    /\ UNCHANGED <<backend_key, settings, validated, created, prefer_mbox_type,
                   mbox_mailboxes, mailbox_index, index, iter_input, iter_offset, payload,
                   fetch_state, op_result>>

\* MboxType::fetch: the file is read and the iterator starts at its beginning
Fetch ==
    /\ created = Ok
    /\ fetch_state = "idle"
    /\ iter_input' = fs_contents
    /\ iter_offset' = 0
    /\ payload' = <<>>
    /\ fetch_state' = "fetching"
    /\ UNCHANGED <<backend_key, settings, validated, created, prefer_mbox_type,
                   mbox_mailboxes, mailbox_index, index, fs_contents, written, op_result>>

\* a call of MessageIterator::next by FetchState::fetch with result r, and
\* the end of the batch when the iterator is exhausted
FetchNext(r) ==
    \/ /\ r.kind = "some"
       /\ index' = {e \in index : e.hash # r.hash}
                   \cup {[hash |-> r.hash, offset |-> r.at, length |-> r.len]}
       /\ iter_offset' = r.offset
       /\ payload' = Append(payload, r.hash)
       /\ UNCHANGED <<iter_input, fetch_state, mailbox_index>>
    \/ /\ r.kind = "err"
       /\ iter_input' = <<>>
       /\ UNCHANGED <<index, iter_offset, payload, fetch_state, mailbox_index>>
    \/ /\ r.kind = "none"
       /\ fetch_state' = "done"
       /\ mailbox_index' = mailbox_index \cup {payload[i] : i \in 1..Len(payload)}
       /\ UNCHANGED <<index, iter_input, iter_offset, payload>>
    \/ /\ r.kind = "panic"
       /\ fetch_state' = "panicked"
       /\ UNCHANGED <<index, iter_input, iter_offset, payload, mailbox_index>>

MessageIteratorNext ==
    /\ fetch_state = "fetching"
    /\ FetchNext(IF iter_input = <<>> THEN IterNone
                 ELSE IterNext(iter_input, iter_offset, prefer_mbox_type))
    /\ UNCHANGED <<backend_key, settings, validated, created, prefer_mbox_type,
                   mbox_mailboxes, fs_contents, written, op_result>>

\* the operations the backend does not implement
Unimplemented(op) ==
    /\ created = Ok
    /\ op_result' = [op |-> op, err |-> ErrUnimplemented]
    /\ UNCHANGED <<backend_key, settings, validated, created, prefer_mbox_type,
                   mbox_mailboxes, mailbox_index, index, fs_contents, written, iter_input,
                   iter_offset, payload, fetch_state>>

Refresh == Unimplemented("refresh")
CopyMessages == \E move_ \in BOOLEAN : Unimplemented(IF move_ THEN "move" ELSE "copy")
SetFlags == Unimplemented("set_flags")
\* the mutant of DeleteMessages that removes the messages from the indices
DeleteMessagesApplied ==
    /\ created = Ok
    /\ op_result' = [op |-> "delete_messages", err |-> Ok]
    /\ index' = {}
    /\ mailbox_index' = {}
    /\ UNCHANGED <<backend_key, settings, validated, created, prefer_mbox_type,
                   mbox_mailboxes, fs_contents, written, iter_input, iter_offset, payload,
                   fetch_state>>
DeleteMessages == Unimplemented("delete_messages")
Save == Unimplemented("save")

InitMbox ==
    /\ backend_key \in BackendKeys
    /\ settings \in Settings
    /\ validated = NotCalled
    /\ created = NotCalled
    /\ prefer_mbox_type = Auto
    /\ mbox_mailboxes = {}
    /\ mailbox_index = {}
    /\ index = {}
    /\ fs_contents = <<>>
    /\ written = NothingWritten
    /\ iter_input = <<>>
    /\ iter_offset = 0
    /\ payload = <<>>
    /\ fetch_state = "idle"
    /\ op_result = NoResult

\* --------------------------------------------------- the notmuch backend
\* (backends/notmuch.rs): the tags of a message of the database and the
\* name of its file, as set_flags writes and collect_flags_and_tags reads them
DRAFT == "DRAFT"
FLAGGED == "FLAGGED"
PASSED == "PASSED"
REPLIED == "REPLIED"
SEEN == "SEEN"
TRASHED == "TRASHED"
\* the flags in the order of the match of set_flags
FlagOrder == <<DRAFT, FLAGGED, PASSED, REPLIED, SEEN, TRASHED>>
Flags == {FlagOrder[i] : i \in 1..Len(FlagOrder)}
CanonicalTags == {"draft", "flagged", "passed", "replied", "unread", "trashed"}

\* the tag set_flags adds or removes for a flag, and whether it adds it when
\* the flag is set
TagOf(f) ==
    CASE f = DRAFT -> "draft"
      [] f = FLAGGED -> "flagged"
      [] f = PASSED -> "passed"
      [] f = REPLIED -> "replied"
      [] f = SEEN -> "unread"
      [] f = TRASHED -> "trashed"
AddsWhenSet(f) == f # SEEN

\* the loop of set_flags over the flips (flag, value): add_tag! skips a tag
\* the message had, remove_tag! one it had not
RECURSIVE ApplyFlips(_, _, _)
\* lines 795-807: Ok(flag) adds or removes the flag's tag
ApplyFlag(had, tags, flips, value, l, adds) ==
    IF value = adds
    THEN ApplyFlips(had, IF l \in had THEN tags ELSE tags \cup {l}, Tail(flips))
    ELSE ApplyFlips(had, IF l \notin had THEN tags ELSE tags \ {l}, Tail(flips))
\* lines 808-815: Err(tag) calls add_tag! whether value is true or not
ApplyTag(had, tags, flips, value, l) ==
    ApplyFlips(had, IF l \in had THEN tags ELSE tags \cup {l}, Tail(flips))
ApplyFlips(had, tags, flips) ==
    IF flips = <<>> THEN tags
    ELSE IF flips[1][1] \in Flags
    THEN ApplyFlag(had, tags, flips, flips[1][2], TagOf(flips[1][1]),
                   AddsWhenSet(flips[1][1]))
    ELSE ApplyTag(had, tags, flips, flips[1][2], flips[1][1])

\* the flips that set the flags of F and clear the others
FlipsFor(F) == [i \in 1..Len(FlagOrder) |-> <<FlagOrder[i], FlagOrder[i] \in F>>]

\* the name of a file: its base name, and in a maildir ":2," and the letters
\* of its flags
BaseName == "msg"
Info == ":2,"
Letters == <<"D", "F", "P", "R", "S", "T">>
PlainPath == <<BaseName>>

\* fn flags(path) of collect_flags_and_tags: the letters from the end of the
\* name back to ":2,"
RECURSIVE PathFlagsAt(_, _, _)
PathFlagsAt(path, ptr, flag) ==
    IF path[ptr + 1] = Info THEN flag
    ELSE IF \A i \in 1..Len(Letters) : path[ptr + 1] # Letters[i] THEN {}
    ELSE IF ptr = 0 THEN {}
    ELSE PathFlagsAt(path, ptr - 1,
                     flag \cup {FlagOrder[CHOOSE i \in 1..Len(Letters) : Letters[i] = path[ptr + 1]]})

PathFlags(path) == PathFlagsAt(path, IF Len(path) = 0 THEN 0 ELSE Len(path) - 1, {})

\* the flags of the tags in collect_flags_and_tags: unread clears SEEN, no
\* tag sets it
TagFlags(tags) ==
    {f \in Flags \ {SEEN} : TagOf(f) \in tags}

collect_flags_and_tags(tags, path) == TagFlags(tags) \cup PathFlags(path)

\* notmuch_message_tags_to_maildir_flags: the name of a file in a maildir
\* gets the letters D, F, P, R, S of the tags and keeps its other letters
Select(s, keep) ==
    LET F[i \in 0..Len(s)] ==
            IF i = 0 THEN <<>>
            ELSE IF s[i] \in keep THEN Append(F[i - 1], s[i]) ELSE F[i - 1]
    IN  F[Len(s)]
tags_to_maildir_flags(tags, path) ==
    IF \A i \in 1..Len(path) : path[i] # Info THEN path
    ELSE LET keep == {l \in {"D", "F", "P", "R"} :
                        \E i \in 1..4 : Letters[i] = l /\ TagOf(FlagOrder[i]) \in tags}
                     \cup (IF "unread" \in tags THEN {} ELSE {"S"})
                     \cup ({"T"} \cap {path[i] : i \in 1..Len(path)})
         IN  <<BaseName, Info>> \o Select(Letters, keep)

NotRead == {"not read"}
NoRequest == {"no request"}

NotmuchAtRest ==
    /\ nm_tags = {"unread"}
    /\ nm_path = PlainPath
    /\ nm_request = NoRequest
    /\ nm_flags = NotRead

\* a message of the database: its file outside a maildir, or in one with the
\* letters of its tags
InitNotmuch ==
    /\ nm_tags \in SUBSET CanonicalTags
    /\ nm_path \in {PlainPath, tags_to_maildir_flags(nm_tags, <<BaseName, Info>>)}
    /\ nm_request = NoRequest
    /\ nm_flags = NotRead

\* NotmuchDb::set_flags for the message, with a flip for each flag
NotmuchSetFlags ==
    \E F \in SUBSET Flags :
        /\ nm_tags' = ApplyFlips(nm_tags, nm_tags, FlipsFor(F))
        /\ nm_path' = tags_to_maildir_flags(nm_tags', nm_path)
        /\ nm_request' = F
        /\ nm_flags' = NotRead

\* TagIterator::collect_flags_and_tags for the message
NotmuchCollect ==
    /\ nm_flags = NotRead
    /\ nm_flags' = collect_flags_and_tags(nm_tags, nm_path)
    /\ UNCHANGED <<nm_tags, nm_path, nm_request>>


\* ------------------------------------ the read loop of idle() (watch.rs:197-268)
\* on the watcher's connection: the lines of a chunk as bytes
MaxReads == 2
MaxChunk == 2

ContinuationLine == <<43, 32>>
OkLines == {<<42, 32, 111, 107>>, <<42, 32, 79, 107>>, <<42, 32, 79, 75>>,
            <<42, 32, 111, 75>>}
ContentLines == {<<42, 32, 49>>, <<42, 32, 50>>}
ServerLines == {ContinuationLine} \cup OkLines \cup ContentLines

\* what a read of the stream or read_response can return
Chunks(n) == UNION {[1..k -> ServerLines] : k \in 0..n}

\* lines 237-241 and 256-260: b"+ ", b"* ok", b"* ok", b"* Ok", b"* OK"
IsIgnored(l) ==
    \/ StartsWith(l, <<43, 32>>)
    \/ StartsWith(l, <<42, 32, 111, 107>>)
    \/ StartsWith(l, <<42, 32, 111, 107>>)
    \/ StartsWith(l, <<42, 32, 79, 107>>)
    \/ StartsWith(l, <<42, 32, 79, 75>>)

RECURSIVE Kept(_)
Kept(lines) ==
    IF lines = <<>> THEN <<>>
    ELSE (IF IsIgnored(Head(lines)) THEN <<>> ELSE <<Head(lines)>>) \o Kept(Tail(lines))

SentDone == [ev |-> "DONE", l |-> <<>>]
SentIdle == [ev |-> "IDLE", l |-> <<>>]
Drained == [ev |-> "read_response", l |-> <<>>]
Processed(l) == [ev |-> "process_untagged", l |-> l]

RECURSIVE ProcessAll(_)
ProcessAll(lines) ==
    IF lines = <<>> THEN <<>> ELSE <<Processed(Head(lines))>> \o ProcessAll(Tail(lines))

\* lines 249-267 for the chunk `lines` and the drained `resp`
DoneBlock(lines, resp) ==
    <<SentDone, Drained>> \o ProcessAll(Kept(lines \o resp)) \o <<SentIdle>>

ReadOthers == <<srv, stream, env, main_lock, watch_due, conf, capabilities,
                uidvalidity, indices, is_online, mbox, events, pc, has_idle,
                err, result, locals, conn, polls, hist, locks, mboxv, nmv,
                mailbox_exists, mailbox_unseen, exists_lck, unseen_lck, cnt_pc,
                cnt_old, cnt_new, rdr_pc, rdr_seen, fb_file, fb_left,
                fb_contents, fb_content, fb_i, fb_payload, fb_done, fb_pc,
                hdr_status, hdr_x_status, hdr_format, env_flags, flag_pc,
                nm_flips, nm_before,
    nq_count, nq_unread, nmb_total,
    nmb_unseen, nfs_iter, nfs_pc,
    it_fn, it_input, it_format, it_offset, it_pc, it_recovered,
    ff_msgs, ff_op, ff_slice, ff_bytes, ff_result>>

ReadAtRest ==
    /\ rd_pc = "none"
    /\ rd_line = <<>>
    /\ rd_response = <<>>
    /\ rd_log = <<>>
    /\ rd_reads = 0

\* line 204: the stream yields a chunk of lines
RdLine ==
    /\ rd_pc = "read"
    /\ rd_reads < MaxReads
    /\ \E c \in Chunks(MaxChunk) \ {<<>>} : rd_line' = c
    /\ rd_reads' = rd_reads + 1
    /\ rd_pc' = "filter"
    /\ UNCHANGED <<rd_response, rd_log>>

\* lines 205-211: the stream ended; the session is over
RdDropped ==
    /\ rd_pc = "read"
    /\ rd_pc' = "dropped"
    /\ UNCHANGED <<rd_line, rd_response, rd_log, rd_reads>>

\* lines 212-223: nothing arrived; DONE, read_response, IDLE
RdTimeout ==
    /\ rd_pc = "read"
    /\ rd_reads < MaxReads
    /\ rd_reads' = rd_reads + 1
    /\ \E resp \in Chunks(1) :
        /\ rd_response' = resp
        /\ rd_log' = rd_log \o <<SentDone, Drained, SentIdle>>
    /\ UNCHANGED <<rd_pc, rd_line>>

\* lines 234-268
RdFilter ==
    /\ rd_pc = "filter"
    /\ IF Len(Kept(rd_line)) = 0
       THEN UNCHANGED <<rd_response, rd_log>>
       ELSE \E resp \in Chunks(1) :
               /\ rd_response' = resp
               /\ rd_log' = rd_log \o DoneBlock(rd_line, resp)
    /\ rd_pc' = "read"
    /\ UNCHANGED <<rd_line, rd_reads>>

\* line 191: IDLE has been sent
InitRead ==
    /\ rd_pc = "read"
    /\ rd_line = <<>>
    /\ rd_response = <<>>
    /\ rd_log = <<SentIdle>>
    /\ rd_reads = 0

\* ------------------------------------------- the counters of a cold mailbox
\* greatest count the server reports for the mailbox
MaxCount == 2
Counts == 0..MaxCount
\* who holds a counter's mutex
ByWatcher == "watcher"
ByReader == "reader"
Nobody == "nobody"
NoSnapshot == <<>>

\* LazyCountSet::clear
LazyClear(l) == [set |-> {}, not_yet_seen |-> 0]

cntv == <<mailbox_exists, mailbox_unseen, exists_lck, unseen_lck, cnt_pc,
          cnt_old, cnt_new, rdr_pc, rdr_seen>>
CntOthers == <<srv, stream, env, main_lock, watch_due, conf, capabilities,
               uidvalidity, indices, is_online, mbox, events, pc, has_idle,
               err, result, locals, conn, polls, hist, locks, mboxv, nmv,
               readv, fb_file, fb_left, fb_contents, fb_content, fb_i,
               fb_payload, fb_done, fb_pc, hdr_status, hdr_x_status, hdr_format,
               env_flags, flag_pc, nm_flips, nm_before,
    nq_count, nq_unread, nmb_total,
    nmb_unseen, nfs_iter, nfs_pc,
    it_fn, it_input, it_format, it_offset, it_pc, it_recovered,
    ff_msgs, ff_op, ff_slice, ff_bytes, ff_result>>

CntAtRest ==
    /\ mailbox_exists = LazyNotYetSeen(0)
    /\ mailbox_unseen = LazyNotYetSeen(0)
    /\ exists_lck = Nobody
    /\ unseen_lck = Nobody
    /\ cnt_pc = "none"
    /\ cnt_old = <<0, 0>>
    /\ cnt_new = <<0, 0>>
    /\ rdr_pc = "none"
    /\ rdr_seen = NoSnapshot

\* a cold mailbox whose counters hold what an earlier listing stored, the
\* watcher at line 382 / 402 with the counts of the server's answer, and a
\* reader of the counters
InitCounters ==
    /\ \E e \in Counts : \E u \in 0..e :
         /\ cnt_old = <<e, u>>
         /\ mailbox_exists = LazyNotYetSeen(e)
         /\ mailbox_unseen = LazyNotYetSeen(u)
    /\ \E e \in Counts : \E u \in 0..e : cnt_new = <<e, u>>
    /\ exists_lck = Nobody
    /\ unseen_lck = Nobody
    /\ cnt_pc = "lock_exists"
    /\ rdr_pc = "idle"
    /\ rdr_seen = NoSnapshot

\* lines 382, 402: if let Ok(mut exists_lck) = mailbox.exists.lock()
ColdLockExists ==
    /\ cnt_pc = "lock_exists"
    /\ exists_lck = Nobody
    /\ exists_lck' = ByWatcher
    /\ cnt_pc' = "clear_exists"
    /\ UNCHANGED <<mailbox_exists, mailbox_unseen, unseen_lck, cnt_old, cnt_new,
                   rdr_pc, rdr_seen>>

\* lines 383, 403: exists_lck.clear()
ColdClearExists ==
    /\ cnt_pc = "clear_exists"
    /\ mailbox_exists' = LazyClear(mailbox_exists)
    /\ cnt_pc' = "set_exists"
    /\ UNCHANGED <<mailbox_unseen, exists_lck, unseen_lck, cnt_old, cnt_new,
                   rdr_pc, rdr_seen>>

\* lines 384-385, 404-405: exists_lck.set_not_yet_seen(total); the guard is
\* dropped at the end of the block
ColdSetExists ==
    /\ cnt_pc = "set_exists"
    /\ mailbox_exists' = [mailbox_exists EXCEPT !.not_yet_seen = cnt_new[1]]
    /\ exists_lck' = Nobody
    /\ cnt_pc' = "lock_unseen"
    /\ UNCHANGED <<mailbox_unseen, unseen_lck, cnt_old, cnt_new, rdr_pc,
                   rdr_seen>>

\* lines 388, 406: if let Ok(mut unseen_lck) = mailbox.unseen.lock()
ColdLockUnseen ==
    /\ cnt_pc = "lock_unseen"
    /\ unseen_lck = Nobody
    /\ unseen_lck' = ByWatcher
    /\ cnt_pc' = "clear_unseen"
    /\ UNCHANGED <<mailbox_exists, mailbox_unseen, exists_lck, cnt_old, cnt_new,
                   rdr_pc, rdr_seen>>

\* lines 389, 407: unseen_lck.clear()
ColdClearUnseen ==
    /\ cnt_pc = "clear_unseen"
    /\ mailbox_unseen' = LazyClear(mailbox_unseen)
    /\ cnt_pc' = "set_unseen"
    /\ UNCHANGED <<mailbox_exists, exists_lck, unseen_lck, cnt_old, cnt_new,
                   rdr_pc, rdr_seen>>

\* lines 390-391, 408-409: unseen_lck.set_not_yet_seen(total); the guard is
\* dropped; set_warm and the return follow
ColdSetUnseen ==
    /\ cnt_pc = "set_unseen"
    /\ mailbox_unseen' = [mailbox_unseen EXCEPT !.not_yet_seen = cnt_new[2]]
    /\ unseen_lck' = Nobody
    /\ cnt_pc' = "done"
    /\ UNCHANGED <<mailbox_exists, exists_lck, cnt_old, cnt_new, rdr_pc,
                   rdr_seen>>

\* a reader of the counters takes both mutexes, so what it reads is the state
\* of the mailbox at one moment
ReaderLockExists ==
    /\ rdr_pc = "idle"
    /\ exists_lck = Nobody
    /\ exists_lck' = ByReader
    /\ rdr_pc' = "lock_unseen"
    /\ UNCHANGED <<mailbox_exists, mailbox_unseen, unseen_lck, cnt_pc, cnt_old,
                   cnt_new, rdr_seen>>

ReaderLockUnseen ==
    /\ rdr_pc = "lock_unseen"
    /\ unseen_lck = Nobody
    /\ unseen_lck' = ByReader
    /\ rdr_pc' = "read"
    /\ UNCHANGED <<mailbox_exists, mailbox_unseen, exists_lck, cnt_pc, cnt_old,
                   cnt_new, rdr_seen>>

\* the reader takes the lengths of both counters and drops the guards
ReaderRead ==
    /\ rdr_pc = "read"
    /\ rdr_seen' = <<LazyLen(mailbox_exists), LazyLen(mailbox_unseen)>>
    /\ exists_lck' = Nobody
    /\ unseen_lck' = Nobody
    /\ rdr_pc' = "idle"
    /\ UNCHANGED <<mailbox_exists, mailbox_unseen, cnt_pc, cnt_old, cnt_new>>

\* ------------------------------------------------ the batches of a fetch
\* `for _i in 0..150` (mbox.rs:880)
BatchSize == 150
\* messages of a file
MaxFileMessages == 301
NoBytes == "empty"
FileBytes == "bytes"

fbv == <<fb_file, fb_left, fb_contents, fb_content, fb_i, fb_payload, fb_done,
         fb_pc>>
FbOthers == <<srv, stream, env, main_lock, watch_due, conf, capabilities,
              uidvalidity, indices, is_online, mbox, events, pc, has_idle,
              err, result, locals, conn, polls, hist, locks, mboxv, nmv,
              readv, cntv, hdr_status, hdr_x_status, hdr_format, env_flags,
              flag_pc, nm_flips, nm_before,
    nq_count, nq_unread, nmb_total,
    nmb_unseen, nfs_iter, nfs_pc,
    it_fn, it_input, it_format, it_offset, it_pc, it_recovered,
    ff_msgs, ff_op, ff_slice, ff_bytes, ff_result>>

FbAtRest ==
    /\ fb_file = NoBytes
    /\ fb_left = 0
    /\ fb_contents = NoBytes
    /\ fb_content = NoBytes
    /\ fb_i = 0
    /\ fb_payload = 0
    /\ fb_done = FALSE
    /\ fb_pc = "none"

\* lines 921-936: the file was read into FetchState.contents; the mailbox
\* record was made with an empty content (line 1137); a file that holds a
\* message is not empty
InitFetchBatches ==
    /\ fb_left \in 0..MaxFileMessages
    /\ fb_file \in IF fb_left = 0 THEN {NoBytes, FileBytes} ELSE {FileBytes}
    /\ fb_contents = fb_file
    /\ fb_content = NoBytes
    /\ fb_i = 0
    /\ fb_payload = 0
    /\ fb_done = FALSE
    /\ fb_pc = "loop"

\* lines 880-891: one turn of the loop of FetchState::fetch: the iterator
\* yields the next message, or None when the input is empty or used up
FetchLoop ==
    /\ fb_pc = "loop"
    /\ IF fb_i = BatchSize
       THEN /\ fb_pc' = "batch"
            /\ UNCHANGED <<fb_left, fb_i, fb_payload, fb_done>>
       ELSE IF fb_contents = NoBytes \/ fb_left = 0
       THEN /\ fb_done' = TRUE
            /\ fb_pc' = "batch"
            /\ UNCHANGED <<fb_left, fb_i, fb_payload>>
       ELSE /\ fb_payload' = fb_payload + 1
            /\ fb_left' = fb_left - 1
            /\ fb_i' = fb_i + 1
            /\ UNCHANGED <<fb_done, fb_pc>>
    /\ UNCHANGED <<fb_file, fb_contents, fb_content>>

\* lines 902-915 and 939-947: the result of fetch, and what the stream does
\* with it: Ok(None) ends the stream, Ok(Some(payload)) is yielded and fetch
\* is called again
FetchBatch ==
    /\ fb_pc = "batch"
    /\ IF fb_done /\ fb_payload = 0
       THEN /\ fb_pc' = "closed"
            /\ UNCHANGED <<fb_contents, fb_content, fb_i, fb_payload, fb_done>>
       ELSE /\ IF fb_done
               THEN fb_content' = fb_contents /\ fb_contents' = NoBytes
               ELSE UNCHANGED <<fb_contents, fb_content>>
            /\ fb_i' = 0
            /\ fb_payload' = 0
            /\ fb_done' = FALSE
            /\ fb_pc' = "loop"
    /\ UNCHANGED <<fb_file, fb_left>>

\* ------------------------------------------- the flags of an mbox message
\* the letters a Status or X-Status header of the model may hold; a header's
\* value is the set of its letters, for the code only asks contains(letter)
StatusLetters == {"F", "A", "R", "D", "T", "O"}
Header(value) == [present |-> TRUE, value |-> value]
\* other_headers() has no such key
NoHeader == [present |-> FALSE, value |-> {}]
HeaderValues == {Header(value) : value \in SUBSET StatusLetters} \cup {NoHeader}

\* lines 455-468 (504-517, 553-566, 602-615, 676-689): the letters of Status
StatusFlags(value) ==
    {f \in {"FLAGGED", "REPLIED", "SEEN", "TRASHED"} :
        \/ f = "FLAGGED" /\ "F" \in value
        \/ f = "REPLIED" /\ "A" \in value
        \/ f = "SEEN" /\ "R" \in value
        \/ f = "TRASHED" /\ "D" \in value}

\* lines 469-485 (518-534, 567-583, 616-632, 690-706): the letters of X-Status
XStatusFlags(value) ==
    {f \in {"FLAGGED", "REPLIED", "SEEN", "TRASHED", "DRAFT"} :
        \/ f = "FLAGGED" /\ "F" \in value
        \/ f = "REPLIED" /\ "A" \in value
        \/ f = "SEEN" /\ "R" \in value
        \/ f = "TRASHED" /\ "D" \in value
        \/ f = "DRAFT" /\ "T" \in value}

\* Flag::empty() and the two blocks, which every arm of MboxFormat::parse
\* repeats
EnvelopeFlags(format, status, x_status) ==
    (IF status.present THEN StatusFlags(status.value) ELSE {})
    \cup (IF x_status.present THEN XStatusFlags(x_status.value) ELSE {})

flagv == <<hdr_status, hdr_x_status, hdr_format, env_flags, flag_pc>>
FlagOthers == <<srv, stream, env, main_lock, watch_due, conf, capabilities,
                uidvalidity, indices, is_online, mbox, events, pc, has_idle,
                err, result, locals, conn, polls, hist, locks, mboxv, nmv,
                readv, cntv, fbv, nm_flips, nm_before,
    nq_count, nq_unread, nmb_total,
    nmb_unseen, nfs_iter, nfs_pc,
    it_fn, it_input, it_format, it_offset, it_pc, it_recovered,
    ff_msgs, ff_op, ff_slice, ff_bytes, ff_result>>

FlagAtRest ==
    /\ hdr_status = NoHeader
    /\ hdr_x_status = NoHeader
    /\ hdr_format = "mboxo"
    /\ env_flags = {}
    /\ flag_pc = "none"

\* a message whose headers Envelope::from_bytes has parsed
InitFlags ==
    /\ hdr_status \in HeaderValues
    /\ hdr_x_status \in HeaderValues
    /\ hdr_format \in Formats
    /\ env_flags = {}
    /\ flag_pc = "parsed"

\* env.set_flags(flags) (lines 486, 535, 584, 633, 707)
ParseFlags ==
    /\ flag_pc = "parsed"
    /\ env_flags' = EnvelopeFlags(hdr_format, hdr_status, hdr_x_status)
    /\ flag_pc' = "flagged"
    /\ UNCHANGED <<hdr_status, hdr_x_status, hdr_format>>

\* ------------------------------------------- set_flags with a list of flips
\* a tag that is no flag's tag, named by Err(tag) in a flip
CustomTags == {"custom"}
\* flips of a call
MaxFlips == 2
FlipNames == Flags \cup CustomTags
\* the lists of flips that name no flag or tag twice
FlipLists ==
    {flips \in UNION {[1..n -> FlipNames \X BOOLEAN] : n \in 0..MaxFlips} :
        \A i, j \in 1..Len(flips) : flips[i][1] = flips[j][1] => i = j}
NotCalledYet == {"not called"}

flipv == <<nm_flips, nm_before>>
FlipOthers == <<srv, stream, env, main_lock, watch_due, conf, capabilities,
                uidvalidity, indices, is_online, mbox, events, pc, has_idle,
                err, result, locals, conn, polls, hist, locks, mboxv, readv,
                cntv, fbv, flagv,
    nq_count, nq_unread, nmb_total,
    nmb_unseen, nfs_iter, nfs_pc,
    it_fn, it_input, it_format, it_offset, it_pc, it_recovered,
    ff_msgs, ff_op, ff_slice, ff_bytes, ff_result>>

FlipAtRest ==
    /\ nm_flips = <<>>
    /\ nm_before = NotCalledYet

\* a message of the database with any of the tags of the model
InitFlips ==
    /\ nm_tags \in SUBSET (CanonicalTags \cup CustomTags)
    /\ nm_path \in {PlainPath, tags_to_maildir_flags(nm_tags, <<BaseName, Info>>)}
    /\ nm_request = NoRequest
    /\ nm_flags = NotRead
    /\ FlipAtRest

\* NotmuchDb::set_flags for the message with a list of flips (lines 716-843)
NotmuchSetFlips ==
    /\ nm_before = NotCalledYet
    /\ \E flips \in FlipLists :
         /\ nm_tags' = ApplyFlips(nm_tags, nm_tags, flips)
         /\ nm_flips' = flips
    /\ nm_path' = tags_to_maildir_flags(nm_tags', nm_path)
    /\ nm_before' = nm_tags
    /\ UNCHANGED <<nm_request, nm_flags>>

\* ------------------------------------------------- notmuch fetch streams
\* streams of fetch started on the mailbox
NumFetches == 2
\* notmuch.rs:356
chunk_size == 250
Streams == 1..NumFetches
\* the number of messages the query matches, around the size of a chunk
QueryCounts == {0, 1, chunk_size, chunk_size + 1}
\* the positions, in the search result, of messages that may be unread
UnreadPositions == {1, chunk_size, chunk_size + 1}

nfv == <<nq_count, nq_unread, nmb_total, nmb_unseen, nfs_iter, nfs_pc>>
NfOthers == <<srv, stream, env, main_lock, watch_due, conf, capabilities,
              uidvalidity, indices, is_online, mbox, events, pc, has_idle,
              err, result, locals, conn, polls, hist, locks, mboxv, nmv, readv,
              cntv, fbv, flagv, flipv,
    it_fn, it_input, it_format, it_offset, it_pc, it_recovered,
    ff_msgs, ff_op, ff_slice, ff_bytes, ff_result>>

NfAtRest ==
    /\ nq_count = 0
    /\ nq_unread = {}
    /\ nmb_total = 0
    /\ nmb_unseen = 0
    /\ nfs_iter = [s \in Streams |-> 0]
    /\ nfs_pc = [s \in Streams |-> "none"]

\* a database whose query matches some messages, some of them unread; the
\* mailbox as NotmuchDb::new leaves it
InitNotmuchFetch ==
    /\ nq_count \in QueryCounts
    /\ nq_unread \in SUBSET (UnreadPositions \cap 1..nq_count)
    /\ nmb_total = 0
    /\ nmb_unseen = 0
    /\ nfs_iter = [s \in Streams |-> 0]
    /\ nfs_pc = [s \in Streams |-> "none"]

\* NotmuchDb::fetch (lines 339-463): total is set to query.count() and unseen
\* to 0 with both mutexes held (lines 436-439), the ids of the search are
\* collected and the stream is made
NotmuchFetch(s) ==
    /\ nfs_pc[s] = "none"
    /\ nmb_total' = nq_count
    /\ nmb_unseen' = 0
    /\ nfs_iter' = [nfs_iter EXCEPT ![s] = 0]
    /\ nfs_pc' = [nfs_pc EXCEPT ![s] = "open"]
    /\ UNCHANGED <<nq_count, nq_unread>>

\* the ids a call of FetchState::fetch takes from iter (lines 360-361, 400-403)
ChunkTaken(consumed) ==
    IF nq_count - consumed < chunk_size THEN nq_count - consumed ELSE chunk_size

\* FetchState::fetch (lines 354-416): up to chunk_size ids are taken, the ones
\* that are not seen are counted and the count is added to unseen (lines
\* 408-409); the stream ends when iter was exhausted and nothing was taken
NotmuchFetchBatch(s) ==
    /\ nfs_pc[s] = "open"
    /\ LET taken == ChunkTaken(nfs_iter[s])
           done == nq_count - nfs_iter[s] < chunk_size
           unseen_count == Cardinality(nq_unread \cap
                               ((nfs_iter[s] + 1)..(nfs_iter[s] + taken)))
       IN /\ nmb_unseen' = nmb_unseen + unseen_count
          /\ nfs_iter' = [nfs_iter EXCEPT ![s] = @ + taken]
          /\ nfs_pc' = [nfs_pc EXCEPT ![s] =
                            IF done /\ taken = 0 THEN "closed" ELSE "open"]
    /\ UNCHANGED <<nq_count, nq_unread, nmb_total>>

\* ---- the loop of MessageIterator::next (mbox.rs:777-822) and of mbox_parse
\* (mbox.rs:722-767), an iteration at a time.  it_pc is "loop" at the loop's
\* condition, "some" when next has returned an envelope, "none" when the
\* input was exhausted (next returns None, mbox_parse Ok), "err" when an
\* error was returned, "panic" when the thread was aborted.
IterFns == {"next", "mbox_parse"}
\* the inputs: every file of the model and the empty file, read in any format
IterInputs == {FileOf(w) : w \in Writings} \cup {<<>>}

itv == <<it_fn, it_input, it_format, it_offset, it_pc, it_recovered>>
ItOthers == <<srv, stream, env, main_lock, watch_due, conf, capabilities,
              uidvalidity, indices, is_online, mbox, events, pc, has_idle,
              err, result, locals, conn, polls, hist, locks, mboxv, nmv, readv,
              cntv, fbv, flagv, flipv, nfv,
    ff_msgs, ff_op, ff_slice, ff_bytes, ff_result>>

ItAtRest ==
    /\ it_fn = "next"
    /\ it_input = <<>>
    /\ it_format = Auto
    /\ it_offset = 0
    /\ it_pc = "none"
    /\ it_recovered = 0

\* a call with offset 0 and file_offset 0 (lines 733, 936)
InitIter ==
    /\ it_fn \in IterFns
    /\ it_input \in IterInputs
    /\ it_format \in Formats \cup {Auto}
    /\ it_offset = 0
    /\ it_pc = "loop"
    /\ it_recovered = 0

\* the iteration's parse of the input from the offset
IterParse == Parse(it_format, SliceFrom(it_input, it_offset))
IterFound == find_From__line(SliceFrom(it_input, it_offset))

\* lines 779-781 and 786 (729-731 and 736): the input is empty or nothing is
\* left of it; mbox_parse returns an error for an empty input
IterExhausted ==
    /\ it_pc = "loop"
    /\ it_offset <= Len(it_input)
    /\ SliceFrom(it_input, it_offset) = <<>>
    /\ it_pc' = IF it_fn = "mbox_parse" /\ it_input = <<>> THEN "err" ELSE "none"
    /\ UNCHANGED <<it_fn, it_input, it_format, it_offset, it_recovered>>

\* lines 810-818 (756-764): the message was parsed; next returns it,
\* mbox_parse goes on with the loop
IterSuccess ==
    /\ it_pc = "loop"
    /\ it_offset < Len(it_input)
    /\ \E p \in {IterParse} :
        /\ p.kind = "ok"
        /\ it_offset' = IterYield(it_input, it_offset, p.hash, p.rest,
                            LineStart(Find(SliceFrom(it_input, it_offset), <<NL>>))).offset
    /\ it_pc' = IF it_fn = "next" THEN "some" ELSE "loop"
    /\ UNCHANGED <<it_fn, it_input, it_format, it_recovered>>

\* lines 790-808 (739-753), a From_ line was found: the loop continues there
IterSkip ==
    /\ it_pc = "loop"
    /\ it_offset < Len(it_input)
    /\ IterParse.kind = "err"
    /\ \E next_offset \in {IterFound} :
        /\ next_offset # None
        /\ it_offset' = RecoverOffset(it_input, it_offset, next_offset)
    /\ it_recovered' = it_recovered + 1
    /\ UNCHANGED <<it_fn, it_input, it_format, it_pc>>

\* lines 803-806 (750-752), no From_ line was found: the error is returned,
\* and next empties its input
IterFail ==
    /\ it_pc = "loop"
    /\ it_offset < Len(it_input)
    /\ IterParse.kind = "err"
    /\ IterFound = None
    /\ it_pc' = "err"
    /\ it_input' = IF it_fn = "next" THEN <<>> ELSE it_input
    /\ UNCHANGED <<it_fn, it_format, it_offset, it_recovered>>

\* a slice of the condition or of the parse is out of range
IterAbort ==
    /\ it_pc = "loop"
    /\ \/ it_offset > Len(it_input)
       \/ it_offset < Len(it_input) /\ IterParse.kind = "panic"
    /\ it_pc' = "panic"
    /\ UNCHANGED <<it_fn, it_input, it_format, it_offset, it_recovered>>

\* the caller calls next again (line 882)
IterAgain ==
    /\ it_fn = "next"
    /\ it_pc \in {"some", "err"}
    /\ it_pc' = IF it_input = <<>> THEN "none" ELSE "loop"
    /\ it_recovered' = 0
    /\ UNCHANGED <<it_fn, it_input, it_format, it_offset>>

\* ---- MboxOp (mbox.rs:272-373) and MboxType::operation (mbox.rs:987-1001).
\* Here a byte is a string of one character.
LF == "\n"
StatusKey == <<"S", "t", "a", "t", "u", "s", ":">>
XStatusKey == <<"X", "-">> \o StatusKey
FromLine == <<"F", "r", "o", "m", " ", "x", LF>>
SubjectLine == <<"S", "u", "b", "j", "e", "c", "t", ":", " ", "s", LF>>
ToLine == <<"T", "o", ":", " ", "a", LF>>
BodyLines == <<"b", LF>>

\* the values of the two headers in the files of the model; a message may
\* lack either header
Absent == <<>>
StatusTexts == {<<"R", "O">>, <<"T">>}
XStatusTexts == {<<"F">>, <<"T">>}
\* messages of a file that operations are made for
MaxOpMessages == 2

\* a message: the values of Status and X-Status, which of the two comes
\* first, and whether a To header follows them
OpMessages ==
    {msg \in [status : StatusTexts \cup {Absent}, x_status : XStatusTexts \cup {Absent},
              x_first : BOOLEAN, to_after : BOOLEAN] :
        msg.x_first => (msg.status # Absent /\ msg.x_status # Absent)}

HeaderLine(key, text) == IF text = Absent THEN <<>> ELSE key \o <<" ">> \o text \o <<LF>>
HeaderBlock(msg) ==
    SubjectLine
    \o (IF msg.x_first
        THEN HeaderLine(XStatusKey, msg.x_status) \o HeaderLine(StatusKey, msg.status)
        ELSE HeaderLine(StatusKey, msg.status) \o HeaderLine(XStatusKey, msg.x_status))
    \o (IF msg.to_after THEN ToLine ELSE <<>>)
MessageBytes(msg) == FromLine \o HeaderBlock(msg) \o <<LF>> \o BodyLines
\* the file: the messages, an empty line between them
RECURSIVE ContentsOf(_)
ContentsOf(msgs) ==
    IF msgs = <<>> THEN <<>>
    ELSE IF Len(msgs) = 1 THEN MessageBytes(msgs[1])
    ELSE MessageBytes(msgs[1]) \o <<LF>> \o ContentsOf(Tail(msgs))

\* the entry of message i in the index: the offset after its From_ line and
\* the length to the end of its body (lines 810-816)
IndexOffset(msgs, i) == Len(ContentsOf(SubSeq(msgs, 1, i - 1))) + (IF i > 1 THEN 1 ELSE 0) + Len(FromLine)
IndexLength(msgs, i) == Len(MessageBytes(msgs[i])) - Len(FromLine)

\* other_headers() of the envelope the parser made of the message, and the
\* flags the parser set on it
OtherHeader(text) ==
    IF text = Absent THEN NoHeader ELSE Header({text[i] : i \in 1..Len(text)})
ParserFlags(msg) == EnvelopeFlags("mboxrd", OtherHeader(msg.status), OtherHeader(msg.x_status))

\* lines 335-349 and 356-370: the flags of the letters among the bytes
LetterFlags(bytes) ==
    {f \in {"FLAGGED", "REPLIED", "SEEN", "TRASHED", "DRAFT"} :
        \E i \in 1..Len(bytes) :
            \/ f = "FLAGGED" /\ bytes[i] = "F"
            \/ f = "REPLIED" /\ bytes[i] = "A"
            \/ f = "SEEN" /\ bytes[i] = "R"
            \/ f = "TRASHED" /\ bytes[i] = "D"
            \/ f = "DRAFT" /\ bytes[i] = "T"}

FlagsOk(flags) == [kind |-> "ok", flags |-> flags]
FlagsErr == [kind |-> "err", flags |-> {}]
FlagsPanic == [kind |-> "panic", flags |-> {}]
NotFetched == [kind |-> "none", flags |-> {}]

\* parser::headers::headers_raw: the bytes of the input up to the first
\* empty line, with the newline that ends the last header; NoHeaders when
\* it returns an error
NoHeaders == <<>>
headers_raw(input) ==
    IF Find(input, <<LF, LF>>) = None THEN NoHeaders
    ELSE Slice(input, 0, Find(input, <<LF, LF>>) + 1)

\* lines 330-351: end is counted from the S of "Status:", the slice is taken
\* from the end of "Status:"
StatusSlice(headers, start, end) ==
    IF end = None THEN FlagsOk({})
    ELSE IF start + Len(StatusKey) + end > Len(headers) THEN FlagsPanic
    ELSE FlagsOk(LetterFlags(Slice(headers, start + Len(StatusKey),
                                   start + Len(StatusKey) + end)))
StatusPart(headers, start) ==
    IF start = None THEN FlagsOk({})
    ELSE StatusSlice(headers, start, Find(SliceFrom(headers, start), <<LF>>))

\* lines 352-371: start is moved to the end of "X-Status:" first
XStatusSlice(headers, start, end) ==
    IF end = None THEN {} ELSE LetterFlags(Slice(headers, start, start + end))
XStatusPart(headers, at) ==
    IF at = None THEN {}
    ELSE XStatusSlice(headers, at + Len(XStatusKey),
                      Find(SliceFrom(headers, at + Len(XStatusKey)), <<LF>>))

\* lines 329-372 for the headers headers_raw returned
FlagsOfParts(status, x_status) ==
    IF status.kind = "panic" THEN FlagsPanic ELSE FlagsOk(status.flags \cup x_status)
FlagsOfHeaders(headers) ==
    IF headers = NoHeaders THEN FlagsErr
    ELSE FlagsOfParts(StatusPart(headers, Find(headers, StatusKey)),
                      XStatusPart(headers, Find(headers, XStatusKey)))
\* MboxOp::fetch_flags: the slice is the contents of the file (lines 316-328)
fetch_flags(contents) == FlagsOfHeaders(headers_raw(contents))

NoOp == [hash |-> 0, offset |-> 0, length |-> 0]

ffv == <<ff_msgs, ff_op, ff_slice, ff_bytes, ff_result>>
OpOthers == <<srv, stream, env, main_lock, watch_due, conf, capabilities,
              uidvalidity, indices, is_online, mbox, events, pc, has_idle,
              err, result, locals, conn, polls, hist, locks, mboxv, nmv, readv,
              cntv, fbv, flagv, flipv, nfv, itv>>

OpAtRest ==
    /\ ff_msgs = <<>>
    /\ ff_op = NoOp
    /\ ff_slice = FALSE
    /\ ff_bytes = <<>>
    /\ ff_result = NotFetched

\* a file whose messages were fetched: each has its entry in the index
InitOp ==
    /\ ff_msgs \in UNION {[1..n -> OpMessages] : n \in 1..MaxOpMessages}
    /\ ff_op = NoOp
    /\ ff_slice = FALSE
    /\ ff_bytes = <<>>
    /\ ff_result = NotFetched

\* MboxType::operation for the envelope of message i
Operation(i) ==
    /\ ff_op = NoOp
    /\ i \in 1..Len(ff_msgs)
    /\ ff_op' = [hash |-> i, offset |-> IndexOffset(ff_msgs, i),
                 length |-> IndexLength(ff_msgs, i)]
    /\ UNCHANGED <<ff_msgs, ff_slice, ff_bytes, ff_result>>

\* MboxOp::as_bytes (lines 296-312): the file is read unless it was, and the
\* message's range of it is returned
OpAsBytes ==
    /\ ff_op # NoOp
    /\ ff_bytes = <<>>
    /\ ff_slice' = TRUE
    /\ ff_bytes' = Slice(ContentsOf(ff_msgs), ff_op.offset, ff_op.offset + ff_op.length)
    /\ UNCHANGED <<ff_msgs, ff_op, ff_result>>

\* MboxOp::fetch_flags (lines 314-373)
FetchFlags ==
    /\ ff_op # NoOp
    /\ ff_result = NotFetched
    /\ ff_slice' = TRUE
    /\ ff_result' = fetch_flags(ContentsOf(ff_msgs))
    /\ UNCHANGED <<ff_msgs, ff_op, ff_bytes>>

ExtAtRest == ReadAtRest /\ CntAtRest /\ FbAtRest /\ FlagAtRest /\ FlipAtRest /\ NfAtRest /\ ItAtRest /\ OpAtRest

InitAny ==
    /\ WatcherAtSpawn
    /\ LocksAtRest
    /\ MboxAtRest
    /\ NotmuchAtRest
    /\ ExtAtRest

\* ------------------------------------------------------------ environment
\* the environment is followed while the watcher task lives
Running == pc # "failed"

\* a message is delivered to the watched mailbox mh; the server tells an
\* idling session
ServerDeliver(mh) ==
    /\ Running
    /\ mh \in mailbox_hashes
    /\ srv_exists[mh] < MsgBound(mh)
    /\ srv_exists' = [srv_exists EXCEPT ![mh] = @ + 1]
    /\ \E recent \in BOOLEAN :
         srv_recent' = [srv_recent EXCEPT ![mh] =
                           IF recent THEN @ \cup {srv_exists[mh] + 1} ELSE @]
    /\ stream' = IF conn_alive /\ idling /\ selected = mh
                 THEN stream \cup {ExistsLine(srv_exists[mh] + 1)} ELSE stream
    /\ missed' = IF net = "down" /\ ~cold[mh]
                 THEN missed \cup {<<mh, srv_exists[mh] + 1>>} ELSE missed
    /\ UNCHANGED <<srv_uidvalidity, srv_caps, env, main_lock, watch_due, static,
                   capabilities, uidvalidity, indices, is_online, mbox, events, pc,
                   has_idle, err, result, locals, conn, polls, observed, stale>>

\* the server recreates mailbox mh: a greater UIDVALIDITY, UIDs start again at
\* 1, and a session that has the old mailbox selected is closed
ServerNewUidvalidity(mh) ==
    /\ Running
    /\ mh \in mailbox_hashes
    /\ srv_uidvalidity[mh] < UidValidityBound(mh)
    /\ srv_uidvalidity' = [srv_uidvalidity EXCEPT ![mh] = @ + 1]
    /\ srv_exists' = [srv_exists EXCEPT ![mh] = 0]
    /\ srv_recent' = [srv_recent EXCEPT ![mh] = {}]
    /\ missed' = {m \in missed : m[1] # mh}
    /\ IF selected = mh
       THEN /\ conn_alive' = FALSE
            /\ selected' = NoMailbox
            /\ idling' = FALSE
            /\ stream' = {}
       ELSE UNCHANGED <<conn, stream>>
    /\ UNCHANGED <<srv_caps, env, main_lock, watch_due, static, capabilities,
                   uidvalidity, indices, is_online, mbox, events, pc, has_idle,
                   err, result, locals, polls, observed, stale>>

\* the server sends "* OK still here" to an idling session
ServerKeepalive ==
    /\ Running
    /\ conn_alive /\ idling
    /\ OkLine \notin stream
    /\ stream' = stream \cup {OkLine}
    /\ UNCHANGED <<srv, env, main_lock, watch_due, static, capabilities,
                   uidvalidity, indices, is_online, mbox, events, pc, has_idle,
                   err, result, locals, conn, polls, hist>>

\* the network is cut: the watcher's socket dies with its session
NetFail ==
    /\ Running
    /\ net = "up"
    /\ outages < MaxOutages
    /\ net' = "down"
    /\ outages' = outages + 1
    /\ conn_alive' = FALSE
    /\ selected' = NoMailbox
    /\ idling' = FALSE
    /\ stream' = {}
    /\ UNCHANGED <<srv, main_lock, watch_due, static, capabilities,
                   uidvalidity, indices, is_online, mbox, events, pc, has_idle,
                   err, result, locals, polls, hist>>

NetRestore ==
    /\ Running
    /\ net = "down"
    /\ net' = "up"
    /\ UNCHANGED <<srv, stream, outages, main_lock, watch_due, static, capabilities,
                   uidvalidity, indices, is_online, mbox, events, pc, has_idle,
                   err, result, locals, conn, polls, hist>>

\* the server is upgraded or reconfigured: its CAPABILITY answer changes
ServerCapabilities ==
    /\ Running
    /\ \E caps \in CapabilitySets \ {srv_caps} : srv_caps' = caps
    /\ UNCHANGED <<srv_uidvalidity, srv_exists, srv_recent, stream, env, main_lock,
                   watch_due, static, capabilities, uidvalidity, indices, is_online,
                   mbox, events, pc, has_idle, err, result, locals, conn, polls,
                   hist>>

\* polling_period has passed since `watch`
PeriodElapses ==
    /\ pc = "idle_wait"
    /\ ~watch_due
    /\ polls < MaxPolls
    /\ watch_due' = TRUE
    /\ polls' = polls + 1
    /\ UNCHANGED <<srv, stream, env, main_lock, static, capabilities,
                   uidvalidity, indices, is_online, mbox, events, pc, has_idle,
                   err, result, locals, conn, hist>>

\* ------------------------------------------------------- watcher: helpers
\* a variant that keeps the guard over the loop's next iteration
GuardKept == "watcher"

\* the guard of main_conn.lock() goes out of scope at the end of the block
\* that took it (lines 76-103, 207-210, 220-223, 228-233): the mutex is free
GuardDropped == "free"

ActivePc(idle) == IF idle THEN "idle_connect" ELSE "poll_connect"

\* connect(): refused by the network, or rejected by the server
ConnectErrors == IF net = "down" THEN {"net"} ELSE {"auth"}

\* `?` inside idle() / poll_with_examine(): the loop returns Err(e), dropping its
\* connection and any guard of the main connection it holds
Fail(e) ==
    /\ err' = e
    /\ pc' = "err_lock"
    /\ main_lock' = IF main_lock = "watcher" THEN "free" ELSE main_lock
    /\ todo' = {}
    /\ cur' = NoMailbox
    /\ ret' = "none"
    /\ sel' = NoSelect
    /\ response' = <<>>
    /\ line' = {}
    /\ conn_alive' = FALSE
    /\ selected' = NoMailbox
    /\ idling' = FALSE
    /\ stream' = {}
    /\ watch_due' = FALSE

FailWith(e) ==
    /\ Fail(e)
    /\ UNCHANGED <<srv, env, static, capabilities, uidvalidity, indices, is_online,
                   mbox, events, has_idle, result, polls, hist>>

\* examine_updates returns Ok(()) to its call site
Return ==
    /\ pc' = ret
    /\ cur' = NoMailbox
    /\ ret' = "none"
    /\ sel' = NoSelect
    /\ response' = <<>>
    /\ UNCHANGED <<todo, line>>

Call(mh, site) ==
    /\ todo' = todo \ {mh}
    /\ cur' = mh
    /\ ret' = site
    /\ pc' = "eu_resync"
    /\ UNCHANGED <<sel, response, line>>

\* the connection examine_updates was handed: the main one when called from
\* the IDLE loop's periodic poll, the watcher's own otherwise
OnMain == ret = "idle_poll"
ConnOk == IF OnMain THEN net = "up" ELSE conn_alive

\* history: EXAMINE of mh returns the server's UIDVALIDITY
Observe(mh) ==
    LET differs == uidvalidity[mh] # 0 /\ uidvalidity[mh] # srv_uidvalidity[mh]
    IN /\ observed' = IF differs THEN observed \cup {mh} ELSE observed
       /\ stale' = IF differs
                   THEN stale \cup {k \in DOMAIN uid_index : k[1] = mh} ELSE stale
       /\ UNCHANGED missed

\* a variant that takes only a smaller UIDVALIDITY for a new one
UidvalidityCheckOlder(stored, seen) ==
    IF stored # 0
    THEN [mismatch |-> seen < stored, store |-> stored]
    ELSE [mismatch |-> FALSE, store |-> seen]

\* lines 327-347: compare the stored UIDVALIDITY with the one EXAMINE returned
UidvalidityCheck(stored, seen) ==
    IF stored # 0
    THEN [mismatch |-> stored # seen, store |-> stored]
    ELSE [mismatch |-> FALSE, store |-> seen]

\* a variant without the contains_key test
ProcessRowNoCheck(st, mh, uid) ==
    LET h == generate_envelope_hash(mh, uid)
    IN [uid_index |-> Put(st.uid_index, <<mh, uid>>, h),
        hash_index |-> Put(st.hash_index, h, <<uid, mh>>),
        msn_index |-> [st.msn_index EXCEPT ![mh] = Append(@, uid)],
        events |-> Append(st.events, CreateEvent(mh, h))]

\* a variant that files the hash under the pair the other way round
ProcessRowSwapped(st, mh, uid) ==
    IF <<mh, uid>> \in DOMAIN st.uid_index
    THEN st
    ELSE LET h == generate_envelope_hash(mh, uid)
         IN [uid_index |-> Put(st.uid_index, <<mh, uid>>, h),
             hash_index |-> Put(st.hash_index, h, <<mh, uid>>),
             msn_index |-> [st.msn_index EXCEPT ![mh] = Append(@, uid)],
             events |-> Append(st.events, CreateEvent(mh, h))]

\* a variant that pushes the uid before the contains_key test
ProcessRowPushFirst(st, mh, uid) ==
    LET pushed == [st.msn_index EXCEPT ![mh] = Append(@, uid)]
    IN IF <<mh, uid>> \in DOMAIN st.uid_index
       THEN [st EXCEPT !.msn_index = pushed]
       ELSE LET h == generate_envelope_hash(mh, uid)
            IN [uid_index |-> Put(st.uid_index, <<mh, uid>>, h),
                hash_index |-> Put(st.hash_index, h, <<uid, mh>>),
                msn_index |-> pushed,
                events |-> Append(st.events, CreateEvent(mh, h))]

\* lines 508-550, one row of the FETCH response
ProcessRow(st, mh, uid) ==
    IF <<mh, uid>> \in DOMAIN st.uid_index
    THEN st
    ELSE LET h == generate_envelope_hash(mh, uid)
         IN [uid_index |-> Put(st.uid_index, <<mh, uid>>, h),
             hash_index |-> Put(st.hash_index, h, <<uid, mh>>),
             msn_index |-> [st.msn_index EXCEPT ![mh] = Append(@, uid)],
             events |-> Append(st.events, CreateEvent(mh, h))]

\* a variant that walks the response from its last row
RECURSIVE ProcessRowsBackwards(_, _, _)
ProcessRowsBackwards(st, mh, rows) ==
    IF rows = <<>> THEN st
    ELSE ProcessRow(ProcessRowsBackwards(st, mh, Tail(rows)), mh, Head(rows))

\* (each row's result is bound as a value before the next row is processed)
RECURSIVE ProcessRows(_, _, _)
ProcessRows(st, mh, rows) ==
    IF rows = <<>> THEN st
    ELSE CHOOSE done \in {ProcessRows(next, mh, Tail(rows)) :
                              next \in {ProcessRow(st, mh, Head(rows))}} : TRUE

Store == [uid_index |-> uid_index, hash_index |-> hash_index,
          msn_index |-> msn_index, events |-> events]

SetStore(st) ==
    /\ uid_index' = st.uid_index
    /\ hash_index' = st.hash_index
    /\ msn_index' = st.msn_index
    /\ events' = st.events

\* lines 465-494: every row's hash is inserted into mailbox.exists
RECURSIVE InsertExists(_, _, _)
InsertExists(l, mh, rows) ==
    IF rows = <<>> THEN l
    ELSE InsertExists(LazyInsertNew(l, generate_envelope_hash(mh, Head(rows))),
                      mh, Tail(rows))

\* resync(mailbox_hash): a differential fetch of what the store does not hold
Resync(mh) == SetToSeq({u \in 1..srv_exists[mh] : <<mh, u>> \notin DOMAIN uid_index})

\* a FETCH response may repeat a row (an unsolicited FETCH of the same message)
WithRepeat(rows, dup) == IF dup THEN rows \o <<rows[1]>> ELSE rows

\* FETCH max(len, 1):* in message sequence numbers; `*` is the last message
FetchRange(from, last) ==
    IF from <= last THEN Range(from, last) ELSE <<last>>

\* ------------------------------------------------------- watcher: spawn
Spawn ==
    /\ pc = "spawn"
    /\ has_idle' = HasIdle(protocol, idle_ext, capabilities)
    /\ pc' = ActivePc(has_idle')
    /\ UNCHANGED <<srv, stream, env, main_lock, watch_due, static, capabilities,
                   uidvalidity, indices, is_online, mbox, events, err, result,
                   locals, conn, polls, hist>>

\* lines 77-83: the loop returned Err(err)
SpawnErrLock ==
    /\ pc = "err_lock"
    /\ \/ /\ IF is_network(err)
             THEN /\ is_online' = "err"
                  /\ main_lock' = "watcher"
                  /\ pc' = "err_reconnect"
                  /\ UNCHANGED result
             ELSE /\ pc' = "failed"
                  /\ result' = err
                  /\ UNCHANGED <<is_online, main_lock>>
       \/ /\ pc' = "failed"
          /\ result' = "lock_timeout"
          /\ UNCHANGED <<is_online, main_lock>>
    /\ UNCHANGED <<srv, stream, env, watch_due, static, capabilities, uidvalidity,
                   indices, mbox, events, has_idle, err, locals, conn, polls,
                   hist>>

\* a variant that reports the failure whatever the reconnection gives
SpawnReconnectAlwaysReports ==
    /\ pc = "err_reconnect"
    /\ events' = Append(events, FailureEvent)
    /\ \/ /\ net = "up"
          /\ polls < MaxPolls
          /\ polls' = polls + 1
          /\ capabilities' = srv_caps
          /\ pc' = ActivePc(has_idle)
          /\ err' = "none"
          /\ UNCHANGED result
       \/ /\ \E e2 \in ConnectErrors : TRUE
          /\ result' = err
          /\ pc' = "failed"
          /\ UNCHANGED <<capabilities, polls, err>>
    /\ main_lock' = "free"
    /\ UNCHANGED <<srv, stream, env, watch_due, static, uidvalidity, indices,
                   is_online, mbox, has_idle, locals, conn, hist>>

\* lines 85-103: one reconnection attempt of the main connection
SpawnReconnect ==
    /\ pc = "err_reconnect"
    /\ \/ /\ net = "up"
          /\ polls < MaxPolls
          /\ polls' = polls + 1
          /\ capabilities' = srv_caps
          /\ pc' = ActivePc(has_idle)
          /\ err' = "none"
          /\ UNCHANGED <<events, result>>
       \/ /\ \E e2 \in ConnectErrors : TRUE
          /\ events' = Append(events, FailureEvent)
          /\ result' = err
          /\ pc' = "failed"
          /\ UNCHANGED <<capabilities, polls, err>>
    /\ main_lock' = GuardDropped
    /\ UNCHANGED <<srv, stream, env, watch_due, static, uidvalidity, indices,
                   is_online, mbox, has_idle, locals, conn, hist>>

\* ------------------------------------------------- watcher: polling loop
PollConnect ==
    /\ pc = "poll_connect"
    /\ \/ /\ net = "up"
          /\ conn_alive' = TRUE
          /\ selected' = NoMailbox
          /\ idling' = FALSE
          /\ capabilities' = srv_caps
          /\ todo' = mailbox_hashes
          /\ pc' = "poll_loop"
          /\ UNCHANGED <<srv, stream, env, main_lock, watch_due, static, uidvalidity,
                         indices, is_online, mbox, events, has_idle, err, result,
                         cur, ret, sel, response, line, polls, hist>>
       \/ \E e \in ConnectErrors \cup {"lock_timeout"} : FailWith(e)

PollLoop ==
    /\ pc = "poll_loop"
    /\ IF todo = {}
       THEN /\ pc' = "poll_sleep"
            /\ UNCHANGED locals
       ELSE \E mh \in todo : Call(mh, "poll_loop")
    /\ UNCHANGED <<srv, stream, env, main_lock, watch_due, static, capabilities,
                   uidvalidity, indices, is_online, mbox, events, has_idle, err,
                   result, conn, polls, hist>>

PollSleep ==
    /\ pc = "poll_sleep"
    /\ polls < MaxPolls
    /\ polls' = polls + 1
    /\ todo' = mailbox_hashes
    /\ pc' = "poll_loop"
    /\ UNCHANGED <<srv, stream, env, main_lock, watch_due, static, capabilities,
                   uidvalidity, indices, is_online, mbox, events, has_idle, err,
                   result, cur, ret, sel, response, line, conn, hist>>

\* ------------------------------------------------ watcher: examine_updates
\* line 306: conn.resync(mailbox_hash).await?
EuResync ==
    /\ pc = "eu_resync"
    /\ IF ~ConnOk THEN FailWith("net")
       ELSE IF resync_ok
       THEN /\ SetStore(ProcessRows(Store, cur, Resync(cur)))
            /\ selected' = IF OnMain THEN selected ELSE cur
            /\ Return
            /\ UNCHANGED <<srv, stream, env, main_lock, watch_due, static,
                           capabilities, uidvalidity, is_online, mbox, has_idle,
                           err, result, conn_alive, idling, polls, hist>>
       ELSE \/ /\ pc' = "eu_examine"
               /\ UNCHANGED <<srv, stream, env, main_lock, watch_due, static,
                              capabilities, uidvalidity, indices, is_online, mbox,
                              events, has_idle, err, result, locals, conn, polls,
                              hist>>
            \/ FailWith("cache")

\* lines 320-323: EXAMINE the mailbox
EuExamine ==
    /\ pc = "eu_examine"
    /\ IF ~ConnOk THEN FailWith("net")
       ELSE /\ sel' = [uidvalidity |-> srv_uidvalidity[cur],
                       exists |-> srv_exists[cur],
                       recent |-> Cardinality(srv_recent[cur])]
            /\ selected' = IF OnMain THEN selected ELSE cur
            /\ Observe(cur)
            /\ pc' = "eu_uidvalidity"
            /\ UNCHANGED <<srv, stream, env, main_lock, watch_due, static,
                           capabilities, uidvalidity, indices, is_online, mbox,
                           events, has_idle, err, result, todo, cur, ret, response,
                           line, conn_alive, idling, polls>>

\* lines 324-347
EuUidvalidity ==
    /\ pc = "eu_uidvalidity"
    /\ LET chk == UidvalidityCheck(uidvalidity[cur], sel.uidvalidity)
       IN IF chk.mismatch
          THEN \/ /\ keep_offline_cache
                  /\ FailWith("cache")
               \/ /\ events' = Append(events, RescanEvent(cur))
                  /\ observed' = observed \ {cur}
                  /\ uidvalidity' = [uidvalidity EXCEPT ![cur] = chk.store]
                  /\ Return
                  /\ UNCHANGED <<srv, stream, env, main_lock, watch_due, static,
                                 capabilities, indices, is_online, mbox, has_idle,
                                 err, result, conn, polls, stale, missed>>
          ELSE /\ uidvalidity' = [uidvalidity EXCEPT ![cur] = chk.store]
               /\ pc' = IF cold[cur] THEN "eu_cold" ELSE "eu_decide"
               /\ UNCHANGED <<srv, stream, env, main_lock, watch_due, static,
                              capabilities, indices, is_online, mbox, events,
                              has_idle, err, result, locals, conn, polls, hist>>

\* STATUS (UNSEEN) and SEARCH UNSEEN: no client marks a message seen, so every
\* message of the server is unseen
SrvUnseen(mh) == srv_exists[mh]

\* a variant of set_warm that leaves the mailbox cold
SetWarmNot(new_value) == TRUE

\* line 411: mailbox.set_warm(true); is_cold is the negation of the flag
SetWarm(new_value) == ~new_value

\* lines 348-413: the mailbox has not been loaded yet
EuCold ==
    /\ pc = "eu_cold"
    /\ IF ~ConnOk THEN FailWith("net")
       ELSE LET total == IF HasCapability(capabilities, CAP_LIST_STATUS)
                         THEN srv_exists[cur] ELSE sel.exists
            IN /\ exists' = [exists EXCEPT ![cur] = LazyNotYetSeen(total)]
               /\ unseen' = [unseen EXCEPT ![cur] = LazyNotYetSeen(SrvUnseen(cur))]
               /\ cold' = [cold EXCEPT ![cur] = SetWarm(TRUE)]
               /\ Return
               /\ UNCHANGED <<srv, stream, env, main_lock, watch_due, static,
                              capabilities, uidvalidity, indices, is_online,
                              events, has_idle, err, result, conn, polls, hist>>

\* a variant that looks at EXISTS before RECENT
WarmCommandExistsFirst(recent, total, known) ==
    IF total > known THEN "FETCH"
    ELSE IF recent > 0 THEN "UID SEARCH RECENT"
    ELSE "none"

\* lines 415, 444, 455: the command a warm mailbox's EXAMINE leads to
WarmCommand(recent, total, known) ==
    IF recent > 0 THEN "UID SEARCH RECENT"
    ELSE IF total > known THEN "FETCH"
    ELSE "none"

\* lines 415-457: which FETCH to send, if any
EuDecide ==
    /\ pc = "eu_decide"
    /\ IF WarmCommand(sel.recent, sel.exists, LazyLen(exists[cur])) # "none"
       THEN IF ~ConnOk THEN FailWith("net")
            ELSE LET rows == IF WarmCommand(sel.recent, sel.exists,
                                            LazyLen(exists[cur])) = "UID SEARCH RECENT"
                             THEN SetToSeq(srv_recent[cur])
                             ELSE IF srv_exists[cur] = 0 THEN <<>>
                             ELSE FetchRange(Max(LazyLen(exists[cur]), 1),
                                             srv_exists[cur])
                 IN IF rows = <<>>
                    THEN IF WarmCommand(sel.recent, sel.exists,
                                        LazyLen(exists[cur])) = "UID SEARCH RECENT"
                         THEN /\ Return
                              /\ UNCHANGED <<srv, stream, env, main_lock,
                                     watch_due, static, capabilities, uidvalidity,
                                     indices, is_online, mbox, events, has_idle,
                                     err, result, conn, polls, hist>>
                         ELSE FailWith("proto")
                    ELSE /\ \E dup \in BOOLEAN : response' = WithRepeat(rows, dup)
                         /\ pc' = "eu_rows"
                         /\ UNCHANGED <<srv, stream, env, main_lock, watch_due,
                                static, capabilities, uidvalidity, indices,
                                is_online, mbox, events, has_idle, err, result,
                                todo, cur, ret, sel, line, conn, polls, hist>>
       ELSE /\ Return
            /\ UNCHANGED <<srv, stream, env, main_lock, watch_due, static,
                           capabilities, uidvalidity, indices, is_online, mbox,
                           events, has_idle, err, result, conn, polls, hist>>

\* lines 463-550: parse the FETCH response, count, cache, index, emit
EuRows ==
    /\ pc = "eu_rows"
    /\ \/ FailWith("parse")
       \/ /\ keep_offline_cache
          /\ Fail("cache")
          /\ exists' = [exists EXCEPT ![cur] = InsertExists(@, cur, response)]
          /\ unseen' = [unseen EXCEPT ![cur] = InsertExists(@, cur, response)]
          /\ UNCHANGED <<srv, env, static, capabilities, uidvalidity, indices,
                         is_online, cold, events, has_idle, result, polls,
                         hist>>
       \/ /\ exists' = [exists EXCEPT ![cur] = InsertExists(@, cur, response)]
          /\ unseen' = [unseen EXCEPT ![cur] = InsertExists(@, cur, response)]
          /\ SetStore(ProcessRows(Store, cur, response))
          /\ Return
          /\ UNCHANGED <<srv, stream, env, main_lock, watch_due, static,
                         capabilities, uidvalidity, is_online, cold, has_idle,
                         err, result, conn, polls, hist>>

\* ---------------------------------------------------- watcher: IDLE loop
\* lines 132-133
IdleConnect ==
    /\ pc = "idle_connect"
    /\ \/ /\ net = "up"
          /\ conn_alive' = TRUE
          /\ selected' = NoMailbox
          /\ idling' = FALSE
          /\ capabilities' = srv_caps
          /\ pc' = "idle_examine"
          /\ UNCHANGED <<srv, stream, env, main_lock, watch_due, static, uidvalidity,
                         indices, is_online, mbox, events, has_idle, err, result,
                         locals, polls, hist>>
       \/ \E e \in ConnectErrors : FailWith(e)

\* lines 148-151: EXAMINE INBOX on the watcher's connection
IdleExamine ==
    /\ pc = "idle_examine"
    /\ IF ~conn_alive THEN FailWith("net")
       ELSE /\ sel' = [uidvalidity |-> srv_uidvalidity[INBOX],
                       exists |-> srv_exists[INBOX],
                       recent |-> Cardinality(srv_recent[INBOX])]
            /\ selected' = INBOX
            /\ Observe(INBOX)
            /\ pc' = "idle_uidvalidity"
            /\ UNCHANGED <<srv, stream, env, main_lock, watch_due, static,
                           capabilities, uidvalidity, indices, is_online, mbox,
                           events, has_idle, err, result, todo, cur, ret, response,
                           line, conn_alive, idling, polls>>

\* lines 152-184: the UIDVALIDITY of INBOX, then the snapshot of the mailboxes
IdleUidvalidity ==
    /\ pc = "idle_uidvalidity"
    /\ LET chk == UidvalidityCheck(uidvalidity[INBOX], sel.uidvalidity)
           Block == /\ IF chk.mismatch
                       THEN /\ events' = Append(events, RescanEvent(INBOX))
                            /\ observed' = observed \ {INBOX}
                       ELSE UNCHANGED <<events, observed>>
                    /\ uidvalidity' = [uidvalidity EXCEPT ![INBOX] = chk.store]
                    /\ UNCHANGED <<stale, missed>>
       IN \/ /\ chk.mismatch /\ keep_offline_cache
             /\ FailWith("cache")
          \/ /\ Block
             /\ todo' = mailbox_hashes \ {INBOX}
             /\ sel' = NoSelect
             /\ pc' = "idle_others"
             /\ UNCHANGED <<srv, stream, env, main_lock, watch_due, static,
                            capabilities, indices, is_online, mbox, has_idle, err,
                            result, cur, ret, response, line, conn, polls>>
          \/ /\ Block
             /\ Fail("lock_timeout")
             /\ UNCHANGED <<srv, env, static, capabilities, indices, is_online,
                            mbox, has_idle, result, polls>>

\* lines 185-190
IdleOthers ==
    /\ pc = "idle_others"
    /\ IF todo = {}
       THEN /\ pc' = "idle_send"
            /\ UNCHANGED locals
       ELSE \E mh \in todo : Call(mh, "idle_others")
    /\ UNCHANGED <<srv, stream, env, main_lock, watch_due, static, capabilities,
                   uidvalidity, indices, is_online, mbox, events, has_idle, err,
                   result, conn, polls, hist>>

\* lines 191-193: IDLE is sent, `watch` is set to now
IdleSend ==
    /\ pc = "idle_send"
    /\ IF ~conn_alive THEN FailWith("net")
       ELSE /\ idling' = TRUE
            /\ watch_due' = FALSE
            /\ pc' = "idle_wait"
            /\ UNCHANGED <<srv, stream, env, main_lock, static, capabilities,
                           uidvalidity, indices, is_online, mbox, events, has_idle,
                           err, result, locals, conn_alive, selected, polls,
                           hist>>

\* lines 204, 225-233: data arrived; when polling_period has passed, the main
\* connection is locked to examine every watched mailbox
IdleLine ==
    /\ pc = "idle_wait"
    /\ conn_alive
    /\ stream # {}
    /\ IF watch_due
       THEN \/ /\ line' = stream
               /\ stream' = {}
               /\ main_lock' = "watcher"
               /\ todo' = mailbox_hashes
               /\ pc' = "idle_poll"
               /\ UNCHANGED <<srv, env, watch_due, static, capabilities, uidvalidity,
                              indices, is_online, mbox, events, has_idle, err,
                              result, cur, ret, sel, response, conn, polls,
                              hist>>
            \/ FailWith("lock_timeout")
       ELSE /\ line' = stream
            /\ stream' = {}
            /\ pc' = "idle_filter"
            /\ UNCHANGED <<srv, env, main_lock, watch_due, static, capabilities,
                           uidvalidity, indices, is_online, mbox, events, has_idle,
                           err, result, todo, cur, ret, sel, response, conn, polls,
                           hist>>

\* lines 229-233
IdlePoll ==
    /\ pc = "idle_poll"
    /\ IF todo = {}
       THEN /\ watch_due' = FALSE
            /\ main_lock' = GuardDropped
            /\ pc' = "idle_filter"
            /\ UNCHANGED locals
       ELSE /\ \E mh \in todo : Call(mh, "idle_poll")
            /\ UNCHANGED <<watch_due, main_lock>>
    /\ UNCHANGED <<srv, stream, env, static, capabilities, uidvalidity, indices,
                   is_online, mbox, events, has_idle, err, result, conn, polls,
                   hist>>

\* the EXISTS counts of a chunk of lines, in the order the server sent them
\* (the count of a session only grows)
InOrder(lines) == SetToSeq({l.n : l \in {x \in lines : x.kind = "exists"}})

\* process_untagged of "* n EXISTS" for the session's selected mailbox: the
\* messages after the known ones, up to n, are fetched, indexed and announced
UntaggedLine(acc, mh, n) ==
    LET rows == Range(LazyLen(acc.l) + 1, n)
    IN [st |-> ProcessRows(acc.st, mh, rows), l |-> InsertExists(acc.l, mh, rows)]

RECURSIVE UntaggedLines(_, _, _)
UntaggedLines(acc, mh, counts) ==
    IF counts = <<>> THEN acc
    ELSE CHOOSE done \in {UntaggedLines(next, mh, Tail(counts)) :
                              next \in {UntaggedLine(acc, mh, Head(counts))}} : TRUE

ProcessUntagged(st, mh, counts) ==
    IF mh # NoMailbox
    THEN UntaggedLines([st |-> st, l |-> exists[mh]], mh, counts).st
    ELSE st

UntaggedExists(mh, counts) ==
    IF mh # NoMailbox
    THEN [exists EXCEPT ![mh] = UntaggedLines([st |-> Store, l |-> @], mh, counts).l]
    ELSE exists

\* the hashes process_untagged inserts into exists are inserted into unseen
UntaggedUnseen(mh, counts) ==
    IF mh # NoMailbox
    THEN [unseen EXCEPT ![mh] =
             [@ EXCEPT !.set = @ \cup (UntaggedExists(mh, counts)[mh].set
                                          \ exists[mh].set)]]
    ELSE unseen

\* lines 234-268: continuation and OK lines are dropped; anything else ends
\* the IDLE, and the lines read, then the lines drained after DONE, are handed
\* to process_untagged one by one; IDLE is sent again
IdleFilter ==
    /\ pc = "idle_filter"
    /\ IF line \ {OkLine} = {}
       THEN /\ line' = {}
            /\ pc' = "idle_wait"
            /\ UNCHANGED <<srv, stream, env, main_lock, watch_due, static,
                           capabilities, uidvalidity, indices, is_online, mbox,
                           events, has_idle, err, result, todo, cur, ret, sel,
                           response, conn, polls, hist>>
       ELSE IF ~conn_alive THEN FailWith("net")
       ELSE /\ \E st \in {ProcessUntagged(Store, selected,
                                             InOrder(line) \o InOrder(stream))} :
                  SetStore(st)
            /\ exists' = UntaggedExists(selected, InOrder(line) \o InOrder(stream))
            /\ unseen' = UntaggedUnseen(selected, InOrder(line) \o InOrder(stream))
            /\ stream' = {}
            /\ line' = {}
            /\ idling' = TRUE
            /\ pc' = "idle_wait"
            /\ UNCHANGED <<srv, env, main_lock, watch_due, static, capabilities,
                           uidvalidity, is_online, cold, has_idle, err, result,
                           todo, cur, ret, sel, response, conn_alive, selected,
                           polls, hist>>

\* lines 205-211: the stream ended; both connections are reconnected and the
\* loop goes on reading
IdleDropped ==
    /\ pc = "idle_wait"
    /\ ~conn_alive
    /\ \/ /\ net = "up"
          /\ conn_alive' = TRUE
          /\ capabilities' = srv_caps
          /\ main_lock' = GuardDropped
          /\ UNCHANGED <<srv, stream, env, watch_due, static, uidvalidity,
                         indices, is_online, mbox, events, pc, has_idle, err,
                         result, locals, selected, idling, polls, hist>>
       \/ \E e \in ConnectErrors \cup {"lock_timeout"} : FailWith(e)

\* lines 212-214: nothing arrived in min(polling_period, 10 minutes); DONE is sent
IdleTimeout ==
    /\ pc = "idle_wait"
    /\ conn_alive
    /\ stream = {}
    /\ idling' = FALSE
    /\ pc' = "idle_heartbeat"
    /\ UNCHANGED <<srv, stream, env, main_lock, watch_due, static, capabilities,
                   uidvalidity, indices, is_online, mbox, events, has_idle, err,
                   result, locals, conn_alive, selected, polls, hist>>

\* a variant that hands what the read drained to process_untagged
IdleHeartbeatProcesses ==
    /\ pc = "idle_heartbeat"
    /\ conn_alive
    /\ selected # NoMailbox
    /\ SetStore(ProcessRows(Store, selected,
                            Range(LazyLen(exists[selected]) + 1, srv_exists[selected])))
    /\ stream' = {}
    /\ pc' = "idle_reidle"
    /\ UNCHANGED <<srv, env, main_lock, watch_due, static, capabilities,
                   uidvalidity, is_online, mbox, has_idle, err, result, locals,
                   conn, polls, hist>>

\* lines 215-218: the tagged completion of the IDLE is read; what the read
\* drains is dropped. A session that was reconnected in place was not idling:
\* its answer to DONE may or may not end the read.
IdleHeartbeat ==
    /\ pc = "idle_heartbeat"
    /\ IF ~conn_alive
       THEN FailWith("net")
       ELSE \/ /\ selected = NoMailbox
               /\ FailWith("net")
            \/ /\ stream' = {}
               /\ pc' = "idle_reidle"
               /\ UNCHANGED <<srv, env, main_lock, watch_due, static, capabilities,
                              uidvalidity, indices, is_online, mbox, events,
                              has_idle, err, result, locals, conn, polls, hist>>

\* lines 219-222: IDLE is sent again, then the main connection is locked and
\* connected
IdleReidle ==
    /\ pc = "idle_reidle"
    /\ IF ~conn_alive
       THEN FailWith("net")
       ELSE \/ /\ idling' = TRUE
               /\ pc' = "idle_wait"
               /\ main_lock' = GuardDropped
               /\ UNCHANGED <<srv, stream, env, watch_due, static,
                              capabilities, uidvalidity, indices, is_online, mbox,
                              events, has_idle, err, result, locals, conn_alive,
                              selected, polls, hist>>
            \/ FailWith("lock_timeout")

\* --------------------------------------------------------------- the system
Environment ==
    \/ \E mh \in Mailboxes : ServerDeliver(mh)
    \/ \E mh \in Mailboxes : ServerNewUidvalidity(mh)
    \/ ServerKeepalive
    \/ PeriodElapses
    \/ NetFail
    \/ NetRestore

Watcher ==
    \/ Spawn
    \/ SpawnErrLock
    \/ SpawnReconnect
    \/ PollConnect
    \/ PollLoop
    \/ PollSleep
    \/ EuResync
    \/ EuExamine
    \/ EuUidvalidity
    \/ EuCold
    \/ EuDecide
    \/ EuRows
    \/ IdleConnect
    \/ IdleExamine
    \/ IdleUidvalidity
    \/ IdleOthers
    \/ IdleSend
    \/ IdleLine
    \/ IdlePoll
    \/ IdleFilter
    \/ IdleDropped
    \/ IdleTimeout
    \/ IdleHeartbeat
    \/ IdleReidle

Next == Environment \/ Watcher

\* an IMAP account on a server that advertises IDLE and LIST-STATUS, with the
\* offline cache kept (without it the cache steps cannot fail, and nothing else
\* differs)
Init ==
    /\ InitAny
    /\ protocol = "IMAP"
    /\ capabilities = {CAP_IDLE, CAP_LIST_STATUS}
    /\ keep_offline_cache

Spec == Init /\ [][Next]_vars

\* the executor runs the watcher task whenever it can take a step
SpecFair == Init /\ [][Next]_vars /\ WF_vars(Watcher)

\* spawn and its reconnection handling alone, for every configuration, against
\* a server whose capabilities change
NextSpawn ==
    \/ Spawn
    \/ SpawnErrLock
    \/ SpawnReconnect
    \/ IdleConnect
    \/ PollConnect
    \/ NetFail
    \/ NetRestore
    \/ ServerCapabilities

SpecSpawn == InitAny /\ [][NextSpawn]_vars

\* the network is cut, any number of times
NetCut ==
    /\ Running
    /\ net = "up"
    /\ net' = "down"
    /\ conn_alive' = FALSE
    /\ selected' = NoMailbox
    /\ idling' = FALSE
    /\ stream' = {}
    /\ UNCHANGED <<srv, outages, main_lock, watch_due, static, capabilities,
                   uidvalidity, indices, is_online, mbox, events, pc, has_idle,
                   err, result, locals, polls, hist>>

\* lines 85-103, every re-entry of the active loop followed
SpawnRetry ==
    /\ pc = "err_reconnect"
    /\ \/ /\ net = "up"
          /\ capabilities' = srv_caps
          /\ pc' = ActivePc(has_idle)
          /\ err' = "none"
          /\ UNCHANGED <<events, result>>
       \/ /\ \E e2 \in ConnectErrors : TRUE
          /\ events' = Append(events, FailureEvent)
          /\ result' = err
          /\ pc' = "failed"
          /\ UNCHANGED <<capabilities, err>>
    /\ main_lock' = "free"
    /\ UNCHANGED <<srv, stream, env, watch_due, static, uidvalidity, indices,
                   is_online, mbox, has_idle, locals, conn, polls, hist>>

\* the steps of spawn up to the connection of the active loop
WatcherRetry ==
    \/ Spawn
    \/ SpawnErrLock
    \/ SpawnRetry
    \/ IdleConnect
    \/ PollConnect

NextRetry ==
    \/ Spawn
    \/ SpawnErrLock
    \/ SpawnRetry
    \/ IdleConnect
    \/ PollConnect
    \/ NetCut
    \/ NetRestore

\* spawn and its reconnection handling on a network that goes down and comes
\* back for ever; the executor runs the watcher task whenever it can step
SpecRetry == InitAny /\ [][NextRetry]_vars /\ WF_vars(WatcherRetry)

\* ---------------------------------------------- polling for ever (C34)
\* the consumer takes the oldest event off its input
Consume ==
    /\ events # <<>>
    /\ events' = Tail(events)
    /\ UNCHANGED <<srv, stream, env, main_lock, watch_due, static, capabilities,
                   uidvalidity, indices, is_online, mbox, pc, has_idle, err,
                   result, locals, conn, polls, hist>>

\* lines 288-293, every polling period followed: the sleep ends, by when the
\* consumer has taken the events of the round before
PollSleepAgain ==
    /\ pc = "poll_sleep"
    /\ events = <<>>
    /\ todo' = mailbox_hashes
    /\ pc' = "poll_loop"
    /\ UNCHANGED <<srv, stream, env, main_lock, watch_due, static, capabilities,
                   uidvalidity, indices, is_online, mbox, events, has_idle, err,
                   result, cur, ret, sel, response, line, conn, polls, hist>>

\* the only failure is the one of a session the server closed
NoFailure == pc' # "failed" /\ (pc' = "err_lock" => err' = "net")

\* the polling watcher where connecting and locking the main connection
\* succeed
WatcherRescan ==
    \/ Spawn
    \/ SpawnErrLock /\ pc' = "err_reconnect"
    \/ SpawnRetry /\ pc' = "poll_connect"
    \/ PollConnect /\ pc' = "poll_loop"
    \/ PollLoop
    \/ PollSleepAgain
    \/ EuResync /\ NoFailure
    \/ EuExamine /\ NoFailure
    \/ EuUidvalidity /\ NoFailure
    \/ EuCold /\ NoFailure
    \/ EuDecide /\ NoFailure
    \/ EuRows /\ NoFailure

\* an IMAP account whose configuration turns IDLE off, so that it is polled,
\* without an offline cache
InitRescan ==
    /\ InitAny
    /\ protocol = "IMAP"
    /\ ~idle_ext
    /\ capabilities = {CAP_IDLE, CAP_LIST_STATUS}
    /\ ~keep_offline_cache

NextRescan ==
    \/ Spawn
    \/ SpawnErrLock /\ pc' = "err_reconnect"
    \/ SpawnRetry /\ pc' = "poll_connect"
    \/ PollConnect /\ pc' = "poll_loop"
    \/ PollLoop
    \/ PollSleepAgain
    \/ EuResync /\ NoFailure
    \/ EuExamine /\ NoFailure
    \/ EuUidvalidity /\ NoFailure
    \/ EuCold /\ NoFailure
    \/ EuDecide /\ NoFailure
    \/ EuRows /\ NoFailure
    \/ Consume
    \/ \E mh \in Mailboxes : ServerDeliver(mh)
    \/ \E mh \in Mailboxes : ServerNewUidvalidity(mh)

\* the polling loop run for ever on a network that stays up: the executor
\* runs the watcher task whenever it can step, and the consumer takes every
\* event
SpecRescan ==
    InitRescan /\ [][NextRescan]_vars /\ WF_vars(WatcherRescan) /\ WF_vars(Consume)


\* the lock operations of the watcher's code, run by tasks that share the UID
\* store: one in the IDLE loop, the others in the IDLE loop or in
\* examine_updates
InitLocks ==
    /\ WatcherAtSpawn
    /\ protocol = "IMAP"
    /\ capabilities = {CAP_IDLE, CAP_LIST_STATUS}
    /\ keep_offline_cache
    /\ resync_ok = FALSE
    /\ mailbox_hashes = Mailboxes
    /\ idle_ext
    /\ lock_holder = [l \in Locks |-> NoTask]
    /\ lock_prog \in [Tasks -> LockPrograms]
    /\ lock_prog[1] \in IdleLoopLocks
    /\ lock_pos = [t \in Tasks |-> 1]
    /\ MboxAtRest
    /\ NotmuchAtRest
    /\ ExtAtRest

NextLocks ==
    \E t \in Tasks :
        /\ LockStep(t)
        /\ UNCHANGED <<srv, stream, env, main_lock, watch_due, conf, capabilities,
                       uidvalidity, indices, is_online, mbox, events, pc, has_idle,
                       err, result, locals, conn, polls, hist, mboxv, nmv, extv>>

SpecLocks == InitLocks /\ [][NextLocks]_vars

\* the mbox backend of an account, from the check of its settings to the end
\* of a fetch of its root mailbox
InitMboxBackend ==
    /\ WatcherAtSpawn
    /\ protocol = "IMAP"
    /\ capabilities = {CAP_IDLE, CAP_LIST_STATUS}
    /\ keep_offline_cache
    /\ resync_ok = FALSE
    /\ mailbox_hashes = Mailboxes
    /\ idle_ext
    /\ LocksAtRest
    /\ InitMbox
    /\ NotmuchAtRest
    /\ ExtAtRest

\* what no step of the mbox backend writes
MboxOthers == <<srv, stream, env, main_lock, watch_due, conf, capabilities,
                uidvalidity, indices, is_online, mbox, events, pc, has_idle,
                err, result, locals, conn, polls, hist, locks, nmv, extv,
    nq_count, nq_unread, nmb_total,
    nmb_unseen, nfs_iter, nfs_pc,
    it_fn, it_input, it_format, it_offset, it_pc, it_recovered,
    ff_msgs, ff_op, ff_slice, ff_bytes, ff_result>>

NextMbox ==
    \/ ValidateConfig /\ UNCHANGED MboxOthers
    \/ New /\ UNCHANGED MboxOthers
    \/ Deliver /\ UNCHANGED MboxOthers
    \/ Fetch /\ UNCHANGED MboxOthers
    \/ MessageIteratorNext /\ UNCHANGED MboxOthers
    \/ Refresh /\ UNCHANGED MboxOthers
    \/ CopyMessages /\ UNCHANGED MboxOthers
    \/ SetFlags /\ UNCHANGED MboxOthers
    \/ DeleteMessages /\ UNCHANGED MboxOthers
    \/ Save /\ UNCHANGED MboxOthers

SpecMbox == InitMboxBackend /\ [][NextMbox]_vars

\* a message of a notmuch database, written by set_flags and read by
\* collect_flags_and_tags
InitNotmuchBackend ==
    /\ WatcherAtSpawn
    /\ protocol = "IMAP"
    /\ capabilities = {CAP_IDLE, CAP_LIST_STATUS}
    /\ keep_offline_cache
    /\ resync_ok = FALSE
    /\ mailbox_hashes = Mailboxes
    /\ idle_ext
    /\ LocksAtRest
    /\ MboxAtRest
    /\ InitNotmuch
    /\ ExtAtRest

\* what no step of the notmuch backend writes
NotmuchOthers == <<srv, stream, env, main_lock, watch_due, conf, capabilities,
                   uidvalidity, indices, is_online, mbox, events, pc, has_idle,
                   err, result, locals, conn, polls, hist, locks, mboxv, extv,
    nq_count, nq_unread, nmb_total,
    nmb_unseen, nfs_iter, nfs_pc,
    it_fn, it_input, it_format, it_offset, it_pc, it_recovered,
    ff_msgs, ff_op, ff_slice, ff_bytes, ff_result>>

NextNotmuch ==
    \/ NotmuchSetFlags /\ UNCHANGED NotmuchOthers
    \/ NotmuchCollect /\ UNCHANGED NotmuchOthers

SpecNotmuch == InitNotmuchBackend /\ [][NextNotmuch]_vars

\* the watcher of an IMAP account at rest
WatcherAtRest ==
    /\ WatcherAtSpawn
    /\ protocol = "IMAP"
    /\ capabilities = {CAP_IDLE, CAP_LIST_STATUS}
    /\ keep_offline_cache
    /\ resync_ok = FALSE
    /\ mailbox_hashes = Mailboxes
    /\ idle_ext
    /\ LocksAtRest

\* the read loop of idle() on an idling session
InitIdleRead ==
    /\ WatcherAtRest
    /\ MboxAtRest
    /\ NotmuchAtRest
    /\ CntAtRest
    /\ FbAtRest
    /\ FlagAtRest
    /\ FlipAtRest
    /\ InitRead
    /\ NfAtRest
    /\ ItAtRest
    /\ OpAtRest

NextIdleRead ==
    \/ RdLine /\ UNCHANGED ReadOthers
    \/ RdDropped /\ UNCHANGED ReadOthers
    \/ RdTimeout /\ UNCHANGED ReadOthers
    \/ RdFilter /\ UNCHANGED ReadOthers

SpecIdleRead == InitIdleRead /\ [][NextIdleRead]_vars

\* the cold path's update of the counters beside a reader of the counters
InitColdCounters ==
    /\ WatcherAtRest
    /\ MboxAtRest
    /\ NotmuchAtRest
    /\ ReadAtRest
    /\ FbAtRest
    /\ FlagAtRest
    /\ FlipAtRest
    /\ InitCounters
    /\ NfAtRest
    /\ ItAtRest
    /\ OpAtRest

NextColdCounters ==
    \/ ColdLockExists /\ UNCHANGED CntOthers
    \/ ColdClearExists /\ UNCHANGED CntOthers
    \/ ColdSetExists /\ UNCHANGED CntOthers
    \/ ColdLockUnseen /\ UNCHANGED CntOthers
    \/ ColdClearUnseen /\ UNCHANGED CntOthers
    \/ ColdSetUnseen /\ UNCHANGED CntOthers
    \/ ReaderLockExists /\ UNCHANGED CntOthers
    \/ ReaderLockUnseen /\ UNCHANGED CntOthers
    \/ ReaderRead /\ UNCHANGED CntOthers

SpecColdCounters == InitColdCounters /\ [][NextColdCounters]_vars

\* the stream of MboxType::fetch over files of up to MaxFileMessages messages
InitFetchStream ==
    /\ WatcherAtRest
    /\ MboxAtRest
    /\ NotmuchAtRest
    /\ ReadAtRest
    /\ CntAtRest
    /\ FlagAtRest
    /\ FlipAtRest
    /\ InitFetchBatches
    /\ NfAtRest
    /\ ItAtRest
    /\ OpAtRest

NextFetchStream ==
    \/ FetchLoop /\ UNCHANGED FbOthers
    \/ FetchBatch /\ UNCHANGED FbOthers

SpecFetchStream == InitFetchStream /\ [][NextFetchStream]_vars

\* MboxFormat::parse's reading of Status and X-Status
InitMboxFlags ==
    /\ WatcherAtRest
    /\ MboxAtRest
    /\ NotmuchAtRest
    /\ ReadAtRest
    /\ CntAtRest
    /\ FbAtRest
    /\ FlipAtRest
    /\ InitFlags
    /\ NfAtRest
    /\ ItAtRest
    /\ OpAtRest

NextMboxFlags == ParseFlags /\ UNCHANGED FlagOthers

SpecMboxFlags == InitMboxFlags /\ [][NextMboxFlags]_vars

\* one call of set_flags with every list of up to MaxFlips flips
InitNotmuchFlips ==
    /\ WatcherAtRest
    /\ MboxAtRest
    /\ ReadAtRest
    /\ CntAtRest
    /\ FbAtRest
    /\ FlagAtRest
    /\ InitFlips
    /\ NfAtRest
    /\ ItAtRest
    /\ OpAtRest

NextNotmuchFlips == NotmuchSetFlips /\ UNCHANGED FlipOthers

SpecNotmuchFlips == InitNotmuchFlips /\ [][NextNotmuchFlips]_vars

\* fetch streams of one notmuch mailbox, started and driven in any order
InitNotmuchFetchStreams ==
    /\ WatcherAtRest
    /\ MboxAtRest
    /\ NotmuchAtRest
    /\ ReadAtRest
    /\ CntAtRest
    /\ FbAtRest
    /\ FlagAtRest
    /\ FlipAtRest
    /\ InitNotmuchFetch
    /\ ItAtRest
    /\ OpAtRest

NextNotmuchFetch ==
    \/ \E s \in Streams : NotmuchFetch(s) /\ UNCHANGED NfOthers
    \/ \E s \in Streams : NotmuchFetchBatch(s) /\ UNCHANGED NfOthers

SpecNotmuchFetch == InitNotmuchFetchStreams /\ [][NextNotmuchFetch]_vars

\* the loop alone, over every input and format
InitIterLoop ==
    /\ WatcherAtRest
    /\ MboxAtRest
    /\ NotmuchAtRest
    /\ ReadAtRest
    /\ CntAtRest
    /\ FbAtRest
    /\ FlagAtRest
    /\ FlipAtRest
    /\ NfAtRest
    /\ InitIter
    /\ OpAtRest

NextIterLoop ==
    \/ IterExhausted /\ UNCHANGED ItOthers
    \/ IterSuccess /\ UNCHANGED ItOthers
    \/ IterSkip /\ UNCHANGED ItOthers
    \/ IterFail /\ UNCHANGED ItOthers
    \/ IterAbort /\ UNCHANGED ItOthers
    \/ IterAgain /\ UNCHANGED ItOthers

SpecIterLoop == InitIterLoop /\ [][NextIterLoop]_vars

\* operations on the messages of an mbox file
InitOperations ==
    /\ WatcherAtRest
    /\ MboxAtRest
    /\ NotmuchAtRest
    /\ ReadAtRest
    /\ CntAtRest
    /\ FbAtRest
    /\ FlagAtRest
    /\ FlipAtRest
    /\ NfAtRest
    /\ ItAtRest
    /\ InitOp

NextOperations ==
    \/ \E i \in 1..MaxOpMessages : Operation(i) /\ UNCHANGED OpOthers
    \/ OpAsBytes /\ UNCHANGED OpOthers
    \/ FetchFlags /\ UNCHANGED OpOthers

SpecOperations == InitOperations /\ [][NextOperations]_vars




\* ------------------------------------------------------------- properties
\* the positions of the events appended by a step
NewEvents == (Len(events) + 1)..Len(events')

IsCreate(e) == e.kind = "Create"

Keys(mh) == {k \in DOMAIN uid_index : k[1] = mh}

\* C1: while a new UIDVALIDITY of a mailbox has been observed and its Rescan is
\* not yet emitted, the first event a step emits for that mailbox is Rescan (no
\* Create of the mailbox comes in between).
C1_RescanIsNext ==
    [][\A mh \in observed : \A i \in NewEvents :
          (/\ events'[i].mailbox_hash = mh
           /\ \A j \in NewEvents : j < i => events'[j].mailbox_hash # mh)
          => events'[i].kind = "Rescan"]_vars

C1_Witness ==
    /\ events # <<>>
    /\ events[Len(events)] = RescanEvent(INBOX)
    /\ INBOX \notin observed
    /\ uidvalidity[INBOX] # srv_uidvalidity[INBOX]
    /\ \E i \in 1..Len(events) : IsCreate(events[i]) /\ events[i].mailbox_hash = INBOX

\* C2: once a new UIDVALIDITY of mailbox mh was observed, no later step emits a
\* Create of mh while uid_index still holds a key of mh from before the
\* observation, or hash_index an entry that points to such a key.
C2_PurgedBeforeCreate ==
    [][\A i \in NewEvents :
          IsCreate(events'[i]) =>
              /\ stale \cap Keys(events'[i].mailbox_hash) = {}
              /\ \A h \in DOMAIN hash_index :
                     <<hash_index[h][2], hash_index[h][1]>> \in stale
                     => hash_index[h][2] # events'[i].mailbox_hash]_vars

\* C3: the step that compares the UIDVALIDITY of an EXAMINE with the stored one,
\* when it does not fail, leaves the server's value stored for that mailbox.
C3_StoredIsServers ==
    [][/\ (pc = "eu_uidvalidity" /\ pc' # "err_lock")
           => uidvalidity'[cur] = sel.uidvalidity
       /\ (pc = "idle_uidvalidity" /\ pc' = "idle_others")
           => uidvalidity'[INBOX] = sel.uidvalidity]_vars

\* C4: no two Create events carry the same mailbox and envelope; a FETCH
\* response adds one Create for each distinct uid the store does not hold yet,
\* and changes no index when it holds them all.
C4_AtMostOneCreate ==
    [][/\ \A i, j \in 1..Len(events') :
             (i < j /\ IsCreate(events'[i]) /\ IsCreate(events'[j]))
             => <<events'[i].mailbox_hash, events'[i].hash>>
                    # <<events'[j].mailbox_hash, events'[j].hash>>
       /\ (pc = "eu_rows" /\ pc' = ret) =>
             LET fresh == {u \in SeqToSet(response) : <<cur, u>> \notin DOMAIN uid_index}
             IN /\ Len(events') - Len(events) = Cardinality(fresh)
                /\ fresh = {} => UNCHANGED indices]_vars

C4_Witness ==
    /\ pc = "eu_rows"
    /\ \E i, j \in 1..Len(response) : i < j /\ response[i] = response[j]

\* C5: uid_index and hash_index are inverses: uid_index[(mh, uid)] = eh exactly
\* when hash_index[eh] = (uid, mh).
C5_IndicesAreInverses ==
    /\ \A k \in DOMAIN uid_index :
          /\ uid_index[k] \in DOMAIN hash_index
          /\ hash_index[uid_index[k]] = <<k[2], k[1]>>
    /\ \A h \in DOMAIN hash_index :
          /\ <<hash_index[h][2], hash_index[h][1]>> \in DOMAIN uid_index
          /\ uid_index[<<hash_index[h][2], hash_index[h][1]>>] = h

C5_Witness ==
    /\ pc = "poll_sleep"
    /\ \E k \in DOMAIN uid_index : k[1] # INBOX

\* C6: for every key (mh, uid) of uid_index, msn_index[mh] holds uid at exactly
\* one position.
C6_MsnHoldsUidOnce ==
    \A k \in DOMAIN uid_index :
        Cardinality({i \in 1..Len(msn_index[k[1]]) : msn_index[k[1]][i] = k[2]}) = 1

C6_Witness ==
    /\ Len(msn_index[INBOX]) = MaxMsgs
    /\ pc \in {"poll_loop", "idle_poll"}

\* C7: a message that arrived in a watched, loaded mailbox during an outage is
\* announced by a Create once the network is back, unless the watcher has
\* terminated or the mailbox was recreated.
Announced(m) ==
    \E i \in 1..Len(events) :
        events[i] = CreateEvent(m[1], generate_envelope_hash(m[1], m[2]))

OutOfBudget == pc \in {"poll_sleep", "err_reconnect"} /\ polls >= MaxPolls

Pending ==
    /\ net = "up"
    /\ Running
    /\ ~OutOfBudget
    /\ \E m \in missed : ~Announced(m)

C7_OutageMessagesAnnounced == Pending ~> ~Pending

\* C8: a Failure event is appended only by the reconnection step, after the
\* loop ended with a network error, and with it the watcher terminates; a
\* reconnection that succeeds appends nothing and enters the loop chosen at
\* spawn.
C8_FailureOnlyAfterFailedReconnect ==
    [][/\ (\E i \in NewEvents : events'[i].kind = "Failure")
           => /\ pc = "err_reconnect"
              /\ is_network(err)
              /\ pc' = "failed"
              /\ result' = err
       /\ (pc = "err_reconnect" /\ pc' \notin {"err_reconnect", "failed"})
           => /\ events' = events
              /\ pc' = IF has_idle THEN "idle_connect" ELSE "poll_connect"]_vars

C8_Witness ==
    /\ pc = "failed"
    /\ events # <<>>
    /\ events[Len(events)] = FailureEvent
    /\ polls > 0

\* C9: when the loop ended with an error that is not of network kind, the next
\* step of the watcher terminates it with that error.
C9_NonNetworkErrorIsReturned ==
    [][(pc = "err_lock" /\ ~is_network(err))
          => (pc' = "failed" /\ result' = err)]_vars

\* C10: spawn enters the IDLE loop exactly when the protocol is IMAP, the idle
\* extension is enabled and a stored capability spells IDLE in any letter
\* case, and the polling loop otherwise; every reconnection enters the loop
\* spawn chose, whatever the capabilities have become.
IsIdleToken(cap) ==
    /\ Len(cap) = 4
    /\ cap[1] \in {73, 105}
    /\ cap[2] \in {68, 100}
    /\ cap[3] \in {76, 108}
    /\ cap[4] \in {69, 101}

IdleWanted == protocol = "IMAP" /\ idle_ext /\ \E cap \in capabilities : IsIdleToken(cap)

C10_LoopChoice ==
    [][/\ pc = "spawn" /\ pc' # "spawn"
           => /\ has_idle' = IdleWanted
              /\ pc' = IF IdleWanted THEN "idle_connect" ELSE "poll_connect"
       /\ pc # "spawn" => has_idle' = has_idle
       /\ (pc = "err_reconnect" /\ pc' \notin {"err_reconnect", "failed"})
           => pc' = IF has_idle THEN "idle_connect" ELSE "poll_connect"
       /\ pc' \in {"idle_connect", "idle_examine"} => has_idle'
       /\ pc' \in {"poll_connect", "poll_loop"} => ~has_idle']_vars

C10_Witness ==
    /\ pc = "idle_connect"
    /\ polls > 0
    /\ ~HasCapability(capabilities, CAP_IDLE)

\* C11: a heartbeat starts only from a wait during which nothing arrived; DONE
\* is sent first (the session stops idling), then the tagged completion is
\* read, then IDLE is sent again; none of the three steps appends an event or
\* changes an index.
C11_HeartbeatOrder ==
    [][/\ (pc' = "idle_heartbeat" /\ pc # "idle_heartbeat")
           => /\ pc = "idle_wait"
              /\ conn_alive /\ stream = {}
              /\ ~idling'
              /\ UNCHANGED <<events, indices>>
       /\ pc = "idle_heartbeat"
           => /\ pc' \in {"idle_heartbeat", "idle_reidle", "err_lock"}
              /\ ~idling'
              /\ UNCHANGED <<events, indices>>
       /\ pc = "idle_reidle"
           => /\ pc' \in {"idle_reidle", "idle_wait", "err_lock"}
              /\ pc' = "idle_wait" => idling'
              /\ UNCHANGED <<events, indices>>
       /\ (pc' = "idle_reidle" /\ pc # "idle_reidle") => pc = "idle_heartbeat"]_vars

C11_Witness ==
    /\ pc = "idle_reidle"
    /\ selected # NoMailbox
    /\ srv_exists[selected] > LazyLen(exists[selected])

\* C12: when the IDLE stream ended and the watcher has reconnected, it starts
\* again from the EXAMINE of INBOX.
C12_DropRestartsFromExamine ==
    [][(pc = "idle_wait" /\ ~conn_alive /\ conn_alive') => pc' = "idle_examine"]_vars

\* C13: in the IDLE loop, once polling_period has passed, examine_updates is
\* run on the main connection for the watched mailboxes (or the loop has
\* ended), whether or not the server sends anything.
C13_PeriodicPollHappens == watch_due ~> (pc = "idle_poll" \/ ~watch_due)

\* C14: the event log only grows at its end; the Create events one step
\* appends for a mailbox are in the order of the server's data (ascending
\* message order), and those of one FETCH response are in the order of the
\* rows that first name each message.
FirstRow(rows, uid) ==
    CHOOSE i \in 1..Len(rows) : rows[i] = uid /\ \A k \in 1..(i - 1) : rows[k] # uid

C20_LockOrderKept ==
    [][/\ \A t \in Tasks : \A l \in Locks :
             (lock_holder[l] # t /\ lock_holder'[l] = t)
             => \A h \in Held(t) : Rank(h) < Rank(l)
       /\ (\E t \in Tasks : lock_pos'[t] <= Len(lock_prog'[t]))
             => \E t \in Tasks :
                    /\ lock_pos'[t] <= Len(lock_prog'[t])
                    /\ LET o == lock_prog'[t][lock_pos'[t]]
                       IN o.op = "acquire" => lock_holder'[o.lock] = NoTask]_vars

C20_Witness ==
    /\ lock_holder["uidvalidity"] = 1
    /\ lock_pos[2] <= Len(lock_prog[2])
    /\ lock_prog[2][lock_pos[2]] = Acq("uidvalidity")

\* ------------------------------------------------- the mbox backend's claims
\* MboxOp::as_bytes of an index entry: file[offset..offset + length]
AsBytes(e) == Slice(fs_contents, e.offset, e.offset + e.length)
\* message i as it was written, without its From_ line
MessageText(i) == SliceFrom(WriteMessage(i, written.bodies[i], written.variant), 3)
\* the bytes are the message, alone or with the empty line that follows it
Verbatim(bytes, text) == bytes \in {text, text \o <<NL>>}
\* the hashes of the messages written, in file order
Ids(w) == [i \in 1..Len(w.bodies) |-> i]
\* the fetch of the file has ended
FetchEnded == fetch_state \in {"done", "panicked"}

\* C15: when a malformed block lies between the first two messages of a file
\* that is read in the variant it was written in, the fetch ends normally and
\* has yielded the envelopes of the messages, the second included, and nothing
\* else: only the malformed block is missing.
C15_MalformedBlockSkipped ==
    (written.bad # NoBlock /\ Len(written.bodies) >= 2
     /\ prefer_mbox_type = written.variant /\ FetchEnded)
        => (fetch_state = "done" /\ payload = Ids(written))

\* C16: when messages were written in a variant and the file is read in that
\* variant, the fetch yields one envelope per message in file order, and every
\* index entry's slice of the file is its message verbatim and parses to an
\* envelope with the entry's hash.
C16_RoundTrip ==
    (written.bad = NoBlock /\ written.bodies # <<>> /\ prefer_mbox_type = written.variant
     /\ FetchEnded)
        => /\ fetch_state = "done"
           /\ payload = Ids(written)
           /\ \A e \in index :
                /\ Verbatim(AsBytes(e), MessageText(e.hash))
                /\ FromBytes(AsBytes(e)) = e.hash

\* C17: a step in which copy_messages (copy or move), set_flags,
\* delete_messages, save or refresh returns gives the error "Unimplemented."
\* and leaves the mailbox registry, both indices and the file as they were.
C17_UnsupportedLeavesState ==
    [][op_result' # op_result
        => /\ op_result'.err = ErrUnimplemented
           /\ UNCHANGED <<mbox_mailboxes, mailbox_index, index, fs_contents>>]_vars

\* an unimplemented operation was called on a mailbox whose messages are indexed
C17_Witness ==
    /\ op_result.op = "delete_messages"
    /\ fetch_state = "done"
    /\ index # {}
    /\ mailbox_index # {}

\* C19: settings that validate_config accepted never make MboxType::new fail,
\* and Backends::validate_config rejects a backend name that is not registered.
C19_ValidatedSettingsConstruct ==
    /\ (validated = Ok /\ created # NotCalled) => created = Ok
    /\ (backend_key # "mbox" /\ validated # NotCalled) => validated = ErrBackend

\* ----------------------------------------------- the notmuch backend's claim
\* C18: the flags read from a message are Seen exactly when it has no unread
\* tag, they are the flags set_flags last wrote, and writing them back leaves
\* the tags as they are.
C18_TagFlagBijection ==
    nm_flags # NotRead
        => /\ (SEEN \in nm_flags) <=> ("unread" \notin nm_tags)
           /\ nm_request # NoRequest => nm_flags = nm_request
           /\ ApplyFlips(nm_tags, nm_tags, FlipsFor(nm_flags)) = nm_tags

\* ------------------------------------------------------------------- C21
\* the positions of spawn before the active loop holds a connection
RetryPcs == {"spawn", "idle_connect", "poll_connect", "err_lock", "err_reconnect"}

\* C21: reconnection is bounded: a watcher whose own connection keeps
\* failing with network errors does not stay in the cycle of failing loop
\* and reconnection for ever; it ends with a Failure event (or its connection
\* is established, or it returns another error)
C21_ReconnectionBounded == <>(pc \notin RetryPcs)

\* ------------------------------------------------------------------- C22
\* a continuation line
IsContinuation(l) == Len(l) >= 2 /\ l[1] = 43 /\ l[2] = 32
\* an untagged OK of the protocol, whose atoms are case-insensitive
IsProtocolOk(l) ==
    /\ Len(l) >= 4
    /\ l[1] = 42 /\ l[2] = 32
    /\ ToUpper(l[3]) = 79 /\ ToUpper(l[4]) = 75
IsContentLine(l) == ~IsContinuation(l) /\ ~IsProtocolOk(l)

RECURSIVE ContentOf(_)
ContentOf(lines) ==
    IF lines = <<>> THEN <<>>
    ELSE (IF IsContentLine(Head(lines)) THEN <<Processed(Head(lines))>> ELSE <<>>)
         \o ContentOf(Tail(lines))

\* the commands of a log, in order
RECURSIVE Commands(_)
Commands(log) ==
    IF log = <<>> THEN <<>>
    ELSE (IF Head(log).ev \in {"DONE", "IDLE"} THEN <<Head(log).ev>> ELSE <<>>)
         \o Commands(Tail(log))

\* C22: a chunk with a content line (neither continuation nor protocol OK) is
\* answered by DONE, the drain of the tagged response, process_untagged of
\* every content line, then IDLE; a chunk of continuation and OK lines alone
\* is answered by nothing; commands on the watcher's connection alternate
\* between IDLE and DONE
C22_ContentEndsIdle ==
    /\ [][rd_pc = "filter" =>
            rd_log' = rd_log \o
                (IF \E i \in 1..Len(rd_line) : IsContentLine(rd_line[i])
                 THEN <<SentDone, Drained>> \o ContentOf(rd_line \o rd_response')
                      \o <<SentIdle>>
                 ELSE <<>>)]_vars
    /\ [](\A i \in 1..Len(Commands(rd_log)) :
            Commands(rd_log)[i] = (IF i % 2 = 1 THEN "IDLE" ELSE "DONE"))

\* ------------------------------------------------------------------- C23
\* the step of examine_updates that follows the checks of a warm mailbox
DecideStep == pc = "eu_decide" /\ pc' # "eu_decide" /\ pc' # "err_lock"
Returned == pc' \notin {"eu_rows", "eu_decide", "err_lock"}
Untouched == UNCHANGED <<events, indices, mbox, response>>

\* C23: a warm mailbox with unchanged UIDVALIDITY: with RECENT > 0 the rows
\* fetched are exactly the UIDs UID SEARCH RECENT returns (none: no fetch);
\* else with EXISTS above the known count they are the messages from the known
\* count to the last; else nothing is fetched, emitted or indexed
C23_WarmDecision ==
    [][DecideStep =>
        IF sel.recent > 0
        THEN IF srv_recent[cur] = {}
             THEN Returned /\ Untouched
             ELSE pc' = "eu_rows" /\ SeqToSet(response') = srv_recent[cur]
        ELSE IF sel.exists > LazyLen(exists[cur])
        THEN /\ pc' = "eu_rows"
             /\ SeqToSet(response') =
                    {n \in 1..srv_exists[cur] : n >= LazyLen(exists[cur])}
        ELSE Returned /\ Untouched]_vars

\* a range FETCH was sent for a warm mailbox with known messages and no
\* recent ones
C23_Witness ==
    /\ pc = "eu_rows"
    /\ sel.recent = 0
    /\ sel.exists > LazyLen(exists[cur])
    /\ LazyLen(exists[cur]) > 0

\* ------------------------------------------------------------------- C24
\* the step of examine_updates that handles a mailbox not loaded yet
ColdStep == pc = "eu_cold" /\ pc' # "eu_cold" /\ pc' # "err_lock"
\* the count the cold path stores in exists: STATUS (MESSAGES) with
\* LIST-STATUS, the EXAMINE's EXISTS otherwise
ColdTotal ==
    IF HasCapability(capabilities, CAP_LIST_STATUS) THEN srv_exists[cur]
    ELSE sel.exists

\* C24: the examine_updates that finds a mailbox cold after the UIDVALIDITY
\* check stores the server's counts in exists and unseen as not-yet-seen
\* placeholders, marks the mailbox warm and returns with no row fetched, no
\* event emitted and no index changed; a warm mailbox stays warm, so every
\* later examine_updates of it goes on to the warm decision
C24_ColdThenWarm ==
    /\ [][ColdStep =>
            /\ cold[cur]
            /\ exists'[cur] = [set |-> {}, not_yet_seen |-> ColdTotal]
            /\ unseen'[cur] = [set |-> {}, not_yet_seen |-> srv_exists[cur]]
            /\ ~cold'[cur]
            /\ Returned
            /\ UNCHANGED <<events, indices, response>>]_vars
    /\ [][\A mh \in Mailboxes : ~cold[mh] => ~cold'[mh]]_vars
    /\ [](pc = "eu_cold" => cold[cur])
    /\ [](pc \in {"eu_decide", "eu_rows"} => ~cold[cur])

\* a later examine_updates of a mailbox that the cold path left with a
\* placeholder of at least one message has reached the warm decision
C24_Witness ==
    /\ pc = "eu_decide"
    /\ ~cold[cur]
    /\ exists[cur].set = {}
    /\ exists[cur].not_yet_seen > 0
    /\ unseen[cur] = exists[cur]

\* ------------------------------------------------------------------- C25
\* what the reader took for each counter is that counter's count before or
\* after the update, never the cleared counter in between
EachCounterWhole ==
    rdr_seen # NoSnapshot =>
        \A i \in 1..2 : rdr_seen[i] \in {cnt_old[i], cnt_new[i]}

\* what the reader took is the pair of counts before the update or the pair
\* after it
PairWhole == rdr_seen # NoSnapshot => rdr_seen \in {cnt_old, cnt_new}

\* C25: a reader of the mailbox's counters beside the cold path's update never
\* sees a cleared counter, nor the new exists count with the old unseen count
C25_CountersOneSection == EachCounterWhole /\ PairWhole

\* ------------------------------------------------------------------- C26
\* the From_ line: "From ", the sender and date, the end of the line
FromLineLen == Len(<<FROM, TXT, NL>>)
\* the place of message i among the blocks of the file
BlockOf(w, i) == IF w.bad # NoBlock /\ i >= 2 THEN i + 1 ELSE i
\* the offset of block k of a file: the blocks before it and the empty lines
\* between them
RECURSIVE BlockStart(_, _)
BlockStart(blocks, k) ==
    IF k = 1 THEN 0 ELSE BlockStart(blocks, k - 1) + Len(blocks[k - 1]) + 1
\* the offset of the From_ line after block k, or of the end of the file
BlockNext(blocks, k) ==
    IF k = Len(blocks) THEN Len(Join(blocks)) ELSE BlockStart(blocks, k + 1)
\* an index entry starts after the From_ line of its message
StartsAfterFromLine(e) ==
    e.offset = BlockStart(Blocks(written), BlockOf(written, e.hash)) + FromLineLen
\* and ends where the next From_ line starts, or the file ends
EndsAtNextFromLine(e) ==
    e.offset + e.length = BlockNext(Blocks(written), BlockOf(written, e.hash))
Disjoint(e, f) ==
    e.offset + e.length <= f.offset \/ f.offset + f.length <= e.offset

\* C26: when a file of well-formed messages is read in the variant it was
\* written in, every index entry starts at the first byte after its message's
\* From_ line and ends where the next From_ line or the end of the file is,
\* and the entries of distinct messages do not overlap
C26_IndexRanges ==
    (written.bad = NoBlock /\ written.bodies # <<>>
     /\ prefer_mbox_type = written.variant /\ FetchEnded)
        => /\ \A e \in index :
                /\ e.hash \in 1..Len(written.bodies)
                /\ StartsAfterFromLine(e)
                /\ EndsAtNextFromLine(e)
           /\ \A e, f \in index : e.hash # f.hash => Disjoint(e, f)

\* ------------------------------------------------------------------- C27
\* the input of MboxFormat::parse for the first message of the file, after its
\* From_ line (lines 644-645), and the offset of its header terminator
FirstInput == SliceFrom(fs_contents, LineStart(Find(fs_contents, <<NL>>)))
FirstHeadersEnd == Find(FirstInput, <<NL, NL>>)
FirstContentLength == ContentLength(Slice(FirstInput, 0, FirstHeadersEnd))
\* the first message of a file written with Content-Length was parsed as
\* MboxCl or MboxCl2
FirstParsedCl ==
    /\ written.variant \in {"mboxcl", "mboxcl2"}
    /\ written.bodies # <<>>
    /\ prefer_mbox_type \in {"mboxcl", "mboxcl2"}
    /\ fetch_state \in {"fetching", "done"}
    /\ payload # <<>>

\* C27: the envelope of a message with Content-Length: N is built from the
\* header block, the empty line that ends it, and the N bytes after it
C27_ExactlyNBodyBytes ==
    FirstParsedCl =>
        ClEnvelopeBytes(FirstInput, FirstHeadersEnd, FirstContentLength)
            = Slice(FirstInput, 0,
                    FirstHeadersEnd + Len(<<NL, NL>>) + FirstContentLength)

\* ------------------------------------------------------------------- C28
\* C28: when the stream of a fetch has ended, the content of the mailbox
\* record is what was read from the file, whatever the number of messages;
\* and no batch holds more than 150 envelopes
C28_ContentSnapshot ==
    /\ fb_pc = "closed" => fb_content = fb_file
    /\ fb_payload <= BatchSize

\* ------------------------------------------------------------------- C29
\* F=Flagged, A=Replied, R=Seen, D=Trashed, T=Draft
FlagOfLetter(l) ==
    CASE l = "F" -> "FLAGGED"
      [] l = "A" -> "REPLIED"
      [] l = "R" -> "SEEN"
      [] l = "D" -> "TRASHED"
      [] l = "T" -> "DRAFT"
LettersOf(header) == IF header.present THEN header.value ELSE {}

\* C29: the flags of a parsed message are those of the letters F, A, R, D, T
\* found in its Status or its X-Status header, whatever the variant
C29_FlagsOfStatusLetters ==
    flag_pc = "flagged" =>
        env_flags = {FlagOfLetter(l) :
                        l \in (LettersOf(hdr_status) \cup LettersOf(hdr_x_status))
                              \ {"O"}}

\* ------------------------------------------------------------------- C30
\* the tag a flip names, and whether the flip asks for it to be present
FlipTag(flip) == IF flip[1] \in Flags THEN TagOf(flip[1]) ELSE flip[1]
FlipWants(flip) == IF flip[1] \in Flags THEN flip[2] = AddsWhenSet(flip[1]) ELSE flip[2]
SetFlagsReturned == nm_before # NotCalledYet

\* C30: after set_flags, the tag of every flip is on the message exactly when
\* the flip asks for it (a flag's tag when the flag is set, unread when SEEN is
\* cleared, a custom tag when its value is true), and every tag that no flip
\* names is on the message exactly when it was before
C30_FlipsApplied ==
    SetFlagsReturned =>
        /\ \A i \in 1..Len(nm_flips) :
               FlipTag(nm_flips[i]) \in nm_tags <=> FlipWants(nm_flips[i])
        /\ \A t \in (CanonicalTags \cup CustomTags)
                        \ {FlipTag(nm_flips[i]) : i \in 1..Len(nm_flips)} :
               t \in nm_tags <=> t \in nm_before

\* C31: once every notmuch fetch stream started on the mailbox has completed,
\* the mailbox's total is the number of messages its query matches, its
\* unseen is the number of those that are not seen, and unseen <= total
C31_CountersAfterFetches ==
    (/\ \E s \in Streams : nfs_pc[s] = "closed"
     /\ \A s \in Streams : nfs_pc[s] \in {"none", "closed"})
    => /\ nmb_total = nq_count
       /\ nmb_unseen = Cardinality(nq_unread)
       /\ nmb_unseen <= nmb_total

\* a step of the IDLE loop that sends IDLE on the watcher's connection: the
\* first IDLE (line 191), the one after a heartbeat (line 219) and the one
\* after the untagged lines were processed (line 267)
SendsIdle ==
    \/ pc = "idle_send" /\ pc' = "idle_wait"
    \/ pc = "idle_reidle" /\ pc' = "idle_wait"
    \/ pc = "idle_filter" /\ pc' = "idle_wait" /\ line \ {OkLine} # {}

\* C32: whenever the IDLE loop sends IDLE on the watcher's connection, the
\* mailbox selected on that connection is INBOX
C32_IdleOnInbox == [][SendsIdle => selected' = INBOX]_vars

\* C33: the watcher does not hold the lock of the main connection while it
\* waits for data on the IDLE connection or sleeps between polls: every
\* acquisition in the IDLE loop and in spawn is released before the next wait
C33_MainLockFreeWhileWaiting ==
    pc \in {"idle_wait", "idle_heartbeat", "poll_sleep"} => main_lock # "watcher"

\* the IDLE loop waits again after a periodic poll that locked the main
\* connection (no error was handled, the period elapsed and the poll ended)
C33_Witness ==
    /\ pc = "idle_wait"
    /\ has_idle
    /\ polls > 0
    /\ ~watch_due
    /\ is_online = "ok"
    /\ main_lock = "free"

\* the stored UIDVALIDITY of mh lets the comparison of examine_updates pass
StoredCurrent(mh) == uidvalidity[mh] \in {0, srv_uidvalidity[mh]}

\* C34: after the server's UIDVALIDITY of a mailbox changed and stays as it
\* is, Rescan is emitted a finite number of times: from some examine_updates
\* on, the comparison with the stored UIDVALIDITY passes for every mailbox
C34_RescanEnds == <>[](\A mh \in Mailboxes : StoredCurrent(mh))

\* C35: when the watcher task has ended with an error, the last refresh
\* event it emitted is the Failure that reports it
C35_FailureBeforeError ==
    pc = "failed" => (events # <<>> /\ events[Len(events)] = FailureEvent)

\* C36: when examine_updates returns an error after the FETCH response was
\* read, no Create was emitted for the response and the mailbox's exists and
\* unseen and uid_index, hash_index and msn_index are as before the call
C36_FetchErrorChangesNothing ==
    [][(pc = "eu_rows" /\ pc' = "err_lock")
          => /\ events' = events
             /\ uid_index' = uid_index
             /\ hash_index' = hash_index
             /\ msn_index' = msn_index
             /\ exists' = exists
             /\ unseen' = unseen]_vars

AfterFromLine(orig_input) == SliceFrom(orig_input, LineStart(Find(orig_input, <<NL>>)))
HeadersEnd(input) ==
    IF Find(input, <<NL, NL>>) = None THEN Len(input) ELSE Find(input, <<NL, NL>>)
DeclaredLength(input) == ContentLength(Slice(input, 0, HeadersEnd(input)))
\* the declared length is larger than what the input has from the end of the
\* headers on
DeclaresTooMuch(input) ==
    /\ DeclaredLength(input) # None
    /\ DeclaredLength(input) > Len(input) - HeadersEnd(input)

\* the input of the parse MessageIterator::next is about to make
NextParseInput == SliceFrom(iter_input, iter_offset)

\* C38: when the message the iterator parses next as MboxCl or MboxCl2 (the
\* format without a preference is MboxCl2) declares a Content-Length larger
\* than the number of bytes left in the input, MboxFormat::parse returns an
\* envelope or an error; it does not abort.
C38_OversizedContentLength ==
    (/\ fetch_state = "fetching"
     /\ prefer_mbox_type \in {"mboxcl", "mboxcl2", Auto}
     /\ iter_offset < Len(iter_input)
     /\ DeclaresTooMuch(AfterFromLine(NextParseInput)))
    => Parse(prefer_mbox_type, NextParseInput).kind \in {"ok", "err"}

\* C39: for every indexed message of an mbox file, MboxOp::fetch_flags
\* returns the flags of the envelope the parser made of that message, for any
\* position of the message in the file and any order of Status and X-Status.
C39_FetchFlagsAgree ==
    ff_result # NotFetched
        => ff_result = FlagsOk(ParserFlags(ff_msgs[ff_op.hash]))

====
